---- MODULE Spec2Model ----
(***************************************************************************)
(* A model of azdev's secret scan / mask engine                            *)
(* (src/azdev/operations/secret.py).                                       *)
(*                                                                         *)
(* Text is a sequence of one-character strings.  A path is a sequence of   *)
(* components; an absolute path starts with the component "/".  Python's   *)
(* None, "" and [] are all falsy and the code only ever tests the          *)
(* truthiness of its optional arguments, so an absent argument is the      *)
(* empty sequence (FALSE for a flag, "None" for an enumerated string).     *)
(***************************************************************************)
EXTENDS Integers, Sequences, FiniteSets, TLC

VARIABLES
    fs,      \* regular files holding text: absolute path -> content
    store,   \* files holding JSON documents (saved scan results): path -> document
    clock,   \* number of calls made so far; datetime.now() of the next call
    pc,      \* "idle": ready for a call; "done": a call has finished
    last,    \* the finished call: arguments, outcome, response, I/O trace
    pre      \* fs and store as they were when the finished call started

vars == <<fs, store, clock, pc, last, pre>>

(***************************************************************************)
(* Bounds of the model.                                                    *)
(***************************************************************************)
MaxScans == 1

(***************************************************************************)
(* Sequences and text.                                                     *)
(***************************************************************************)
Range(s) == {s[i] : i \in 1..Len(s)}

Contains(s, x) == \E i \in 1..Len(s) : s[i] = x

RECURSIVE Repeat(_, _)
Repeat(c, n) == IF n <= 0 THEN <<>> ELSE <<c>> \o Repeat(c, n - 1)

StartsWithAt(s, i, old) ==
    /\ i + Len(old) - 1 <= Len(s)
    /\ \A j \in 1..Len(old) : s[i + j - 1] = old[j]

\* t occurs somewhere in s as a contiguous substring
Occurs(s, t) == \E i \in 1..(Len(s) - Len(t) + 1) : StartsWithAt(s, i, t)

\* str.replace(old, new): every non-overlapping occurrence, leftmost first.
\* With an empty old Python puts new before every character and at the end.
RECURSIVE str_replace(_, _, _)
str_replace(s, old, new) ==
    IF Len(old) = 0
    THEN IF Len(s) = 0 THEN new
         ELSE new \o <<s[1]>> \o
              (IF Len(s) = 1 THEN new ELSE str_replace(Tail(s), old, new))
    ELSE IF Len(s) < Len(old) THEN s
    ELSE IF StartsWithAt(s, 1, old)
         THEN new \o str_replace(SubSeq(s, Len(old) + 1, Len(s)), old, new)
         ELSE <<s[1]>> \o str_replace(Tail(s), old, new)

\* fnmatch.fnmatch on the characters of a name: "*" matches any run of
\* characters, "?" one character, any other character itself.
RECURSIVE fnmatch(_, _)
fnmatch(name, pat) ==
    IF Len(pat) = 0 THEN Len(name) = 0
    ELSE IF pat[1] = "*"
         THEN \/ fnmatch(name, Tail(pat))
              \/ Len(name) > 0 /\ fnmatch(Tail(name), pat)
    ELSE /\ Len(name) > 0
         /\ (pat[1] = "?" \/ pat[1] = name[1])
         /\ fnmatch(Tail(name), Tail(pat))

(***************************************************************************)
(* The file system the calls run against.                                  *)
(***************************************************************************)
Cwd == <<"/", "w">>

\* the characters of each file or directory name
NameChars ==
    [n \in {"a.t", "b.j", "c.j", "e.t", "s"} |->
        CASE n = "a.t" -> <<"a", ".", "t">>
          [] n = "b.j" -> <<"b", ".", "j">>
          [] n = "c.j" -> <<"c", ".", "j">>
          [] n = "e.t" -> <<"e", ".", "t">>
          [] n = "s"   -> <<"s">>]

DirD == <<"/", "w", "d">>
DirS == <<"/", "w", "d", "s">>
FileA == DirD \o <<"a.t">>
FileB == DirD \o <<"b.j">>
FileC == DirS \o <<"c.j">>
FileE == DirS \o <<"e.t">>

Dirs == {DirD, DirS}

\* os.listdir: the entries of a directory, files and directories alike
listdir(d) ==
    IF d = DirD THEN <<"a.t", "b.j", "s">>
    ELSE IF d = DirS THEN <<"c.j", "e.t">>
    ELSE <<>>

InitFs ==
    (FileA :> <<"a", "b", "x", "a", "b">>) @@
    (FileB :> <<"x", "s">>) @@
    (FileC :> <<"a", "b", "c">>) @@
    (FileE :> <<>>)

abspath(p) == IF Len(p) > 0 /\ p[1] = "/" THEN p ELSE Cwd \o p

isdir(p) == abspath(p) \in Dirs

isfile(f, p) == abspath(p) \in DOMAIN f

(***************************************************************************)
(* Argument validation and the enumeration of a directory target.          *)
(***************************************************************************)
\* a validation that lets include_pattern and exclude_pattern through together
validate_data_path_without_exclusion(f, file_path, directory_path, include_pattern, exclude_pattern, data) ==
    IF file_path # <<>> /\ directory_path # <<>>
        THEN "Can not specify file path and directory path at the same time"
    ELSE IF file_path # <<>> /\ data # <<>>
        THEN "Can not specify file path and raw string at the same time"
    ELSE IF directory_path # <<>> /\ data # <<>>
        THEN "Can not specify directory path and raw string at the same time"
    ELSE IF file_path = <<>> /\ directory_path = <<>> /\ data = <<>>
        THEN "No file path or directory path or raw string provided"
    ELSE IF directory_path # <<>> /\ ~isdir(directory_path)
        THEN "invalid directory path"
    ELSE IF file_path # <<>> /\ ~isfile(f, file_path)
        THEN "invalid file path"
    ELSE IF directory_path = <<>> /\ include_pattern # <<>>
        THEN "--include-pattern need to be used together with --directory-path"
    ELSE IF directory_path = <<>> /\ exclude_pattern # <<>>
        THEN "--exclude-pattern need to be used together with --directory-path"
    ELSE ""

\* Returns the message of the ValueError raised, "" when none is raised.
\* os.path.isdir / isfile only stat the path: nothing is read.
validate_data_path(f, file_path, directory_path, include_pattern, exclude_pattern, data) ==
    IF file_path # <<>> /\ directory_path # <<>>
        THEN "Can not specify file path and directory path at the same time"
    ELSE IF file_path # <<>> /\ data # <<>>
        THEN "Can not specify file path and raw string at the same time"
    ELSE IF directory_path # <<>> /\ data # <<>>
        THEN "Can not specify directory path and raw string at the same time"
    ELSE IF file_path = <<>> /\ directory_path = <<>> /\ data = <<>>
        THEN "No file path or directory path or raw string provided"
    ELSE IF directory_path # <<>> /\ ~isdir(directory_path)
        THEN "invalid directory path"
    ELSE IF file_path # <<>> /\ ~isfile(f, file_path)
        THEN "invalid file path"
    ELSE IF directory_path = <<>> /\ include_pattern # <<>>
        THEN "--include-pattern need to be used together with --directory-path"
    ELSE IF directory_path = <<>> /\ exclude_pattern # <<>>
        THEN "--exclude-pattern need to be used together with --directory-path"
    ELSE IF include_pattern # <<>> /\ exclude_pattern # <<>>
        THEN "--include-pattern and --exclude-pattern are mutually exclusive"
    ELSE ""

\* None (falsy) without a name or without patterns
is_file_name_in_patterns(filename, patterns) ==
    /\ filename # <<>>
    /\ patterns # <<>>
    /\ \E i \in 1..Len(patterns) : fnmatch(filename, patterns[i])

\* a filter that looks at include_pattern alone
check_file_include_pattern_only(filename, include_pattern, exclude_pattern) ==
    ~(include_pattern # <<>> /\ ~is_file_name_in_patterns(filename, include_pattern))

check_file_include_and_exclude_pattern(filename, include_pattern, exclude_pattern) ==
    /\ ~(include_pattern # <<>> /\ ~is_file_name_in_patterns(filename, include_pattern))
    /\ ~(exclude_pattern # <<>> /\ is_file_name_in_patterns(filename, exclude_pattern))

\* the entries of directory d that pass the name filter, as paths, in order
RECURSIVE RetainedEntries(_, _, _, _)
RetainedEntries(d, names, include_pattern, exclude_pattern) ==
    IF names = <<>> THEN <<>>
    ELSE (IF check_file_include_and_exclude_pattern(NameChars[Head(names)],
                                                    include_pattern, exclude_pattern)
          THEN <<d \o <<Head(names)>>>> ELSE <<>>)
         \o RetainedEntries(d, Tail(names), include_pattern, exclude_pattern)

\* os.walk, top down: the files of each directory of the subtree
RECURSIVE walk(_, _)
walk(f, d) ==
    LET names == listdir(d)
        files == SelectSeq(names, LAMBDA n : (d \o <<n>>) \in DOMAIN f)
        subs  == SelectSeq(names, LAMBDA n : (d \o <<n>>) \in Dirs)
        below[i \in 0..Len(subs)] ==
            IF i = 0 THEN <<>> ELSE below[i - 1] \o walk(f, d \o <<subs[i]>>)
    IN  <<[root |-> d, files |-> files]>> \o below[Len(subs)]

\* an enumeration that never descends into subdirectories
get_files_of_directory_only(f, directory_path, recursive, include_pattern, exclude_pattern) ==
    SelectSeq(RetainedEntries(directory_path, listdir(directory_path),
                              include_pattern, exclude_pattern),
              LAMBDA p : p \in DOMAIN f)

get_files_from_directory(f, directory_path, recursive, include_pattern, exclude_pattern) ==
    IF recursive
    THEN LET w == walk(f, directory_path)
             acc[i \in 0..Len(w)] ==
                 IF i = 0 THEN <<>>
                 ELSE acc[i - 1] \o RetainedEntries(w[i].root, w[i].files,
                                                    include_pattern, exclude_pattern)
         IN  acc[Len(w)]
    ELSE SelectSeq(RetainedEntries(directory_path, listdir(directory_path),
                                   include_pattern, exclude_pattern),
                   LAMBDA p : p \in DOMAIN f)

(***************************************************************************)
(* The pattern registry.  A detection pattern is modelled by the literal   *)
(* text it matches.                                                        *)
(***************************************************************************)
HighConfidenceSecurityModels ==
    <<[id |-> "000", name |-> <<"H">>, pat |-> <<"a", "b">>, token |-> <<"+">>]>>
MediumConfidenceSecurityModels ==
    <<[id |-> "001", name |-> <<"M">>, pat |-> <<"b", "c">>, token |-> <<"-">>]>>
LowConfidenceSecurityModels ==
    <<[id |-> "002", name |-> <<"L">>, pat |-> <<"x">>, token |-> <<"~">>]>>

\* a loader that reads the file of the chosen level alone
load_regex_patterns_of_level(confidence_level) ==
    IF confidence_level \in {"None", "HIGH"} THEN HighConfidenceSecurityModels
    ELSE IF confidence_level = "MEDIUM" THEN MediumConfidenceSecurityModels
    ELSE IF confidence_level = "LOW" THEN LowConfidenceSecurityModels
    ELSE <<>>

load_built_in_regex_patterns(confidence_level) ==
    LET level == IF confidence_level = "None" THEN "HIGH" ELSE confidence_level
    IN  (IF level \in {"HIGH", "MEDIUM", "LOW"} THEN HighConfidenceSecurityModels ELSE <<>>)
        \o (IF level \in {"MEDIUM", "LOW"} THEN MediumConfidenceSecurityModels ELSE <<>>)
        \o (IF level = "LOW" THEN LowConfidenceSecurityModels ELSE <<>>)

\* load_regex_pattern_from_json: one ad-hoc pattern from an Include entry
load_regex_pattern_from_json(entry) ==
    [id |-> "custom", name |-> entry.Name, pat |-> entry.Pattern, token |-> <<"+">>]

NoCustomPattern == [given |-> FALSE, valid_json |-> TRUE,
                    has_include |-> FALSE, Include |-> <<>>,
                    has_exclude |-> FALSE, Exclude |-> <<>>]

\* a filter that lets every built-in pattern through
with_excluded(built_in, exclude_pattern_ids) == built_in

\* for pattern in built_in_regex_patterns: if pattern.id in exclude_pattern_ids: continue
without_excluded(built_in, exclude_pattern_ids) ==
    SelectSeq(built_in, LAMBDA p : p.id \notin exclude_pattern_ids)

\* [err, patterns]: err is the message of the ValueError raised, "" when none
load_regex_patterns(confidence_level, custom_pattern) ==
    LET built_in == load_built_in_regex_patterns(confidence_level)
        inc == IF custom_pattern.has_include THEN custom_pattern.Include ELSE <<>>
        exc == IF custom_pattern.has_exclude THEN custom_pattern.Exclude ELSE <<>>
        exclude_pattern_ids == {exc[i].Id : i \in 1..Len(exc)}
        included[i \in 0..Len(inc)] ==
            IF i = 0 THEN <<>>
            ELSE Append(included[i - 1], load_regex_pattern_from_json(inc[i]))
    IN  IF ~custom_pattern.given
            THEN [err |-> "", patterns |-> built_in]
        ELSE IF ~custom_pattern.valid_json
            THEN [err |-> "Custom pattern should be in valid json format", patterns |-> <<>>]
        ELSE IF \E i \in 1..Len(inc) : inc[i].Pattern = <<>>
            THEN [err |-> "Pattern property is required for Include patterns",
                  patterns |-> <<>>]
        ELSE IF \E i \in 1..Len(exc) : exc[i].Id = ""
            THEN [err |-> "Id property is required for Exclude patterns", patterns |-> <<>>]
        ELSE [err |-> "",
              patterns |-> included[Len(inc)] \o
                  (IF custom_pattern.has_exclude
                   THEN without_excluded(built_in, exclude_pattern_ids)
                   ELSE built_in)]

\* the matches of one pattern in data from 1-based position i on, left to
\* right and non-overlapping, as findings with 0-based half-open offsets
RECURSIVE MatchesFrom(_, _, _)
MatchesFrom(data, p, i) ==
    IF i + Len(p.pat) - 1 > Len(data) THEN <<>>
    ELSE IF StartsWithAt(data, i, p.pat)
         THEN <<[secret_name |-> p.name,
                 secret_value |-> SubSeq(data, i, i + Len(p.pat) - 1),
                 secret_index |-> <<i - 1, i - 1 + Len(p.pat)>>,
                 redaction_token |-> p.token]>>
              \o MatchesFrom(data, p, i + Len(p.pat))
         ELSE MatchesFrom(data, p, i + 1)

\* SecretMasker(regex_patterns).detect_secrets(data), turned into findings
detect_secrets(regex_patterns, data) ==
    LET acc[i \in 0..Len(regex_patterns)] ==
            IF i = 0 THEN <<>> ELSE acc[i - 1] \o MatchesFrom(data, regex_patterns[i], 1)
    IN  acc[Len(regex_patterns)]

\* [err, secrets]; for empty data the patterns are not even loaded
scan_secrets_for_string(data, confidence_level, custom_pattern) ==
    IF data = <<>> THEN [err |-> "", secrets |-> <<>>]
    ELSE LET loaded == load_regex_patterns(confidence_level, custom_pattern)
         IN  IF loaded.err # "" THEN [err |-> loaded.err, secrets |-> <<>>]
             ELSE [err |-> "", secrets |-> detect_secrets(loaded.patterns, data)]

(***************************************************************************)
(* Scan results.  A Python dict is a sequence of [key, secrets] entries in *)
(* insertion order, with no key twice.  The key of an inline string is     *)
(* "raw_data", the key of a file its absolute path.                        *)
(***************************************************************************)
RawData == <<"raw_data">>

Keys(d) == {d[i].key : i \in 1..Len(d)}

Get(d, k) == d[CHOOSE i \in 1..Len(d) : d[i].key = k].secrets

\* d[k] = v
Put(d, k, v) ==
    IF k \in Keys(d)
    THEN [i \in 1..Len(d) |-> IF d[i].key = k THEN [key |-> k, secrets |-> v] ELSE d[i]]
    ELSE Append(d, [key |-> k, secrets |-> v])

\* json.dump: an object is the sequence of its <<name, value>> members
json_dump(scan_results) ==
    [i \in 1..Len(scan_results) |->
        <<scan_results[i].key,
          [j \in 1..Len(scan_results[i].secrets) |->
              LET s == scan_results[i].secrets[j]
              IN  << <<"secret_name", s.secret_name>>,
                     <<"secret_value", s.secret_value>>,
                     <<"secret_index", s.secret_index>>,
                     <<"redaction_token", s.redaction_token>> >>]>>]

Member(obj, name) == obj[CHOOSE i \in 1..Len(obj) : obj[i][1] = name][2]

\* json.load
json_load(doc) ==
    [i \in 1..Len(doc) |->
        [key |-> doc[i][1],
         secrets |-> [j \in 1..Len(doc[i][2]) |->
             [secret_name |-> Member(doc[i][2][j], "secret_name"),
              secret_value |-> Member(doc[i][2][j], "secret_value"),
              secret_index |-> Member(doc[i][2][j], "secret_index"),
              redaction_token |-> Member(doc[i][2][j], "redaction_token")]]]]

\* get_azdev_config_dir()/scan_results/scan_result_<now>.json
AutoResultPath(now) == <<"/", "cfg", "scan_results", ToString(now)>>

NoResponse == [keys |-> {}, secrets_detected |-> FALSE,
               scan_results |-> <<>>, scan_result_path |-> <<>>]

\* if secrets: scan_results[key] = secrets
record_secrets_always(scan_results, key, secrets) == Put(scan_results, key, secrets)

record_secrets(scan_results, key, secrets) ==
    IF secrets # <<>> THEN Put(scan_results, key, secrets) ELSE scan_results

\* if scan_result_path: save_scan_result = True
save_requested_by_flag_only(save_scan_result, scan_result_path) == save_scan_result

save_requested(save_scan_result, scan_result_path) ==
    save_scan_result \/ scan_result_path # <<>>

(***************************************************************************)
(* scan_secrets.  f is the file system, st the stored documents, now the   *)
(* clock, fault the I/O failure the environment injects during the call,   *)
(* a the arguments.                                                        *)
(***************************************************************************)
\* The loop over the target files, from file i on.  results and reads are
\* what the earlier files have produced.
RECURSIVE scan_loop(_, _, _, _, _, _, _)
scan_loop(f, fault, a, target_files, i, results, reads) ==
    IF i > Len(target_files)
    THEN [error |-> "", errtype |-> "", scan_results |-> results, reads |-> reads]
    ELSE LET target_file == target_files[i]
             opened == ~(fault.kind = "read" /\ fault.path = target_file)
             data == f[target_file]
             scanned == scan_secrets_for_string(data, a.confidence_level, a.custom_pattern)
             raised == IF ~opened THEN "OSError"
                       ELSE IF data # <<>> /\ scanned.err # "" THEN "ValueError"
                       ELSE ""
             message == IF ~opened THEN "can not read the file" ELSE scanned.err
             reads2 == Append(reads, target_file)
         IN  IF raised # ""
             THEN IF a.continue_on_failure
                  THEN scan_loop(f, fault, a, target_files, i + 1, results, reads2)
                  ELSE [error |-> message, errtype |-> raised,
                        scan_results |-> results, reads |-> reads2]
             ELSE IF data = <<>>
                  THEN scan_loop(f, fault, a, target_files, i + 1, results, reads2)
                  ELSE scan_loop(f, fault, a, target_files, i + 1,
                                 record_secrets(results, target_file, scanned.secrets),
                                 reads2)

\* a loop that stops at the first failure whatever continue_on_failure says
scan_target_files_aborting(f, fault, a, target_files, i, results, reads) ==
    scan_loop(f, fault, [a EXCEPT !.continue_on_failure = FALSE],
              target_files, i, results, reads)

\* for target_file in target_files: ...
scan_target_files(f, fault, a, target_files, i, results, reads) ==
    scan_loop(f, fault, a, target_files, i, results, reads)

Raised(st, errtype, error, reads) ==
    [outcome |-> "raised", errtype |-> errtype, error |-> error,
     response |-> NoResponse, store |-> st, reads |-> reads, writes |-> <<>>]

scan_secrets(f, st, now, fault, a) ==
    LET invalid == validate_data_path(f, a.file_path, a.directory_path,
                                      a.include_pattern, a.exclude_pattern, a.data)
        target_files ==
            (IF a.directory_path # <<>>
             THEN get_files_from_directory(f, abspath(a.directory_path), a.recursive,
                                           a.include_pattern, a.exclude_pattern)
             ELSE <<>>)
            \o (IF a.file_path # <<>> THEN <<abspath(a.file_path)>> ELSE <<>>)
        \* lines 163-166: the scan of the inline string
        of_data(secrets) ==
            [error |-> secrets.err,
             errtype |-> IF secrets.err # "" THEN "ValueError" ELSE "",
             scan_results |-> record_secrets(<<>>, RawData, secrets.secrets),
             reads |-> <<>>]
        save_scan_result == save_requested(a.save_scan_result, a.scan_result_path)
        scan_result_path == IF a.scan_result_path # <<>> THEN a.scan_result_path
                            ELSE AutoResultPath(now)
        \* lines 185-208: the response built from what the scan has found
        respond(scanned) ==
            IF scanned.error # ""
                THEN Raised(st, scanned.errtype, scanned.error, scanned.reads)
            ELSE IF ~save_scan_result
                THEN [outcome |-> "returned", errtype |-> "", error |-> "",
                      response |-> [keys |-> {"secrets_detected", "scan_results"},
                                    secrets_detected |-> scanned.scan_results # <<>>,
                                    scan_results |-> scanned.scan_results,
                                    scan_result_path |-> <<>>],
                      store |-> st, reads |-> scanned.reads, writes |-> <<>>]
            ELSE IF scanned.scan_results = <<>>
                THEN [outcome |-> "returned", errtype |-> "", error |-> "",
                      response |-> [keys |-> {"secrets_detected", "scan_result_path"},
                                    secrets_detected |-> FALSE,
                                    scan_results |-> <<>>,
                                    scan_result_path |-> <<>>],
                      store |-> st, reads |-> scanned.reads, writes |-> <<>>]
            ELSE [outcome |-> "returned", errtype |-> "", error |-> "",
                  response |-> [keys |-> {"secrets_detected", "scan_result_path"},
                                secrets_detected |-> TRUE,
                                scan_results |-> <<>>,
                                scan_result_path |-> abspath(scan_result_path)],
                  store |-> (abspath(scan_result_path) :> json_dump(scanned.scan_results))
                            @@ st,
                  reads |-> scanned.reads,
                  writes |-> <<abspath(scan_result_path)>>]
    IN  IF invalid # "" THEN Raised(st, "ValueError", invalid, <<>>)
        ELSE IF a.data # <<>>
            THEN respond(of_data(scan_secrets_for_string(a.data, a.confidence_level,
                                                         a.custom_pattern)))
        ELSE respond(scan_target_files(f, fault, a, target_files, 1, <<>>, <<>>))

(***************************************************************************)
(* The saved scan result, filtered by the target.                          *)
(***************************************************************************)
\* the entry of a file target, looked up under the path as it was given
saved_entry_of_file_as_given(saved_scan_results, file_path) ==
    IF file_path \in Keys(saved_scan_results)
    THEN Put(<<>>, file_path, Get(saved_scan_results, file_path))
    ELSE <<>>

\* every entry of the saved file, whatever the target
saved_entries_unfiltered(saved_scan_results, file_path) == saved_scan_results

\* file_path = os.path.abspath(file_path); if file_path in saved_scan_results: ...
saved_entry_of_file(saved_scan_results, file_path) ==
    IF abspath(file_path) \in Keys(saved_scan_results)
    THEN Put(<<>>, abspath(file_path), Get(saved_scan_results, abspath(file_path)))
    ELSE <<>>

get_scan_results_from_saved_file(f, st, saved_scan_result_path, file_path, directory_path, recursive, include_pattern, exclude_pattern, data) ==
    LET saved_scan_results == json_load(st[abspath(saved_scan_result_path)])
        invalid == validate_data_path(f, file_path, directory_path,
                                      include_pattern, exclude_pattern, data)
        target_files == get_files_from_directory(f, abspath(directory_path), recursive,
                                                 include_pattern, exclude_pattern)
        kept[i \in 0..Len(target_files)] ==
            IF i = 0 THEN <<>>
            ELSE IF target_files[i] \in Keys(saved_scan_results)
                 THEN Put(kept[i - 1], target_files[i],
                          Get(saved_scan_results, target_files[i]))
                 ELSE kept[i - 1]
        fail(errtype, error, reads) ==
            [errtype |-> errtype, error |-> error, scan_results |-> <<>>, reads |-> reads]
        read == <<abspath(saved_scan_result_path)>>
    IN  IF abspath(saved_scan_result_path) \notin DOMAIN st
            THEN fail("ValueError", "invalid saved scan result path", <<>>)
        ELSE IF invalid # "" THEN fail("ValueError", invalid, read)
        ELSE IF file_path # <<>>
            THEN [errtype |-> "", error |-> "", reads |-> read,
                  scan_results |-> saved_entry_of_file(saved_scan_results, file_path)]
        ELSE IF directory_path # <<>>
            THEN [errtype |-> "", error |-> "", reads |-> read,
                  scan_results |-> kept[Len(target_files)]]
        ELSE IF RawData \notin Keys(saved_scan_results)
            THEN fail("KeyError", "raw_data", read)
        ELSE [errtype |-> "", error |-> "", reads |-> read,
              scan_results |-> Put(<<>>, RawData, Get(saved_scan_results, RawData))]

(***************************************************************************)
(* Redaction.                                                              *)
(***************************************************************************)
\* a replacement at the recorded offsets instead of a replacement of the value
mask_secret_at_offsets(data, secret, redaction_type) ==
    LET new == IF redaction_type = "FIXED_VALUE" THEN <<"*", "*", "*">>
               ELSE IF redaction_type = "FIXED_LENGTH"
                   THEN Repeat("*", Len(secret.secret_value))
               ELSE IF redaction_type = "SECRET_NAME" THEN secret.secret_name
               ELSE secret.redaction_token
    IN  SubSeq(data, 1, secret.secret_index[1]) \o new
        \o SubSeq(data, secret.secret_index[2] + 1, Len(data))

mask_secret_for_string(data, secret, redaction_type) ==
    IF redaction_type = "FIXED_VALUE"
        THEN str_replace(data, secret.secret_value, <<"*", "*", "*">>)
    ELSE IF redaction_type = "FIXED_LENGTH"
        THEN str_replace(data, secret.secret_value, Repeat("*", Len(secret.secret_value)))
    ELSE IF redaction_type = "SECRET_NAME"
        THEN str_replace(data, secret.secret_value, secret.secret_name)
    ELSE str_replace(data, secret.secret_value, secret.redaction_token)

\* for secret in secrets: content = _mask_secret_for_string(content, secret, ...)
mask_all(content, secrets, redaction_type) ==
    LET acc[i \in 0..Len(secrets)] ==
            IF i = 0 THEN content
            ELSE mask_secret_for_string(acc[i - 1], secrets[i], redaction_type)
    IN  acc[Len(secrets)]

\* The loop that rewrites the files of the scan result, from entry i on.  A
\* "read" fault makes the open for reading fail, an "open_w" fault the open
\* for writing (the file keeps its content), a "write" fault the write after
\* open(..., 'w') has truncated the file.
RECURSIVE mask_files(_, _, _, _, _, _, _)
mask_files(f, fault, a, scan_results, i, reads, writes) ==
    IF i > Len(scan_results)
    THEN [errtype |-> "", error |-> "", fs |-> f, reads |-> reads, writes |-> writes]
    ELSE LET scan_file_path == scan_results[i].key
             hit(kind) == fault.kind = kind /\ fault.path = scan_file_path
             content == f[scan_file_path]
             masked == mask_all(content, scan_results[i].secrets, a.redaction_type)
             reads2 == Append(reads, scan_file_path)
             writes2 == Append(writes, scan_file_path)
             failed(f2, w2) ==
                 IF a.continue_on_failure
                 THEN mask_files(f2, fault, a, scan_results, i + 1, reads2, w2)
                 ELSE [errtype |-> "OSError", error |-> "can not handle the file",
                       fs |-> f2, reads |-> reads2, writes |-> w2]
         IN  IF hit("read") THEN failed(f, writes)
             ELSE IF content = <<>>
                 THEN mask_files(f, fault, a, scan_results, i + 1, reads2, writes)
             ELSE IF hit("open_w") THEN failed(f, writes)
             ELSE IF hit("write")
                 THEN failed([f EXCEPT ![scan_file_path] = <<>>], writes2)
             ELSE mask_files([f EXCEPT ![scan_file_path] = masked], fault, a,
                             scan_results, i + 1, reads2, writes2)

\* if not yes: if not prompt_y_n(...): return mask_result
confirmed_always(yes, answer) == TRUE

confirmed(yes, answer) == yes \/ answer

\* lines 277-317: found is what the call has in scan_results at line 277,
\* or the error raised before it; answer is what prompt_y_n returns if it is
\* asked
mask_scan_results(f, fault, a, answer, found) ==
    LET mask_result == [mask |-> FALSE, data |-> a.data, file_path |-> a.file_path,
                        directory_path |-> a.directory_path, recursive |-> a.recursive]
        \* lines 301-317: the outcome of the loop over the files
        of_files(rewritten) ==
            [outcome |-> IF rewritten.errtype # "" THEN "raised" ELSE "returned",
             errtype |-> rewritten.errtype, error |-> rewritten.error,
             mask_result |-> IF rewritten.errtype # "" THEN mask_result
                             ELSE [mask_result EXCEPT !.mask = TRUE],
             scan_results |-> found.scan_results,
             fs |-> rewritten.fs, store |-> found.store,
             reads |-> rewritten.reads, writes |-> rewritten.writes, prompted |-> ~a.yes]
        result(outcome, mr, prompted) ==
            [outcome |-> outcome, errtype |-> found.errtype, error |-> found.error,
             mask_result |-> mr, scan_results |-> found.scan_results,
             fs |-> f, store |-> found.store,
             reads |-> found.reads, writes |-> found.writes, prompted |-> prompted]
    IN  IF found.errtype # "" THEN result("raised", mask_result, FALSE)
        ELSE IF found.scan_results = <<>>
            THEN result("returned", mask_result, FALSE)
        ELSE IF ~confirmed(a.yes, answer)
            THEN result("returned", mask_result, TRUE)
        ELSE IF RawData \in Keys(found.scan_results)
            THEN result("returned",
                        [mask_result EXCEPT
                            !.mask = TRUE,
                            !.data = mask_all(a.data, Get(found.scan_results, RawData),
                                              a.redaction_type)],
                        ~a.yes)
        ELSE of_files(mask_files(f, fault, a, found.scan_results, 1,
                                 found.reads, found.writes))

mask_secrets(f, st, now, fault, a, answer) ==
    LET \* lines 257-264: the scan results come from the saved file
        of_saved(from_saved) ==
            [errtype |-> from_saved.errtype, error |-> from_saved.error,
             scan_results |-> from_saved.scan_results,
             store |-> st, reads |-> from_saved.reads, writes |-> <<>>]
        \* lines 265-275: the scan results come from the response of a scan
        of_scan(scan) ==
            IF scan.outcome = "raised"
                THEN [errtype |-> scan.errtype, error |-> scan.error, scan_results |-> <<>>,
                      store |-> scan.store, reads |-> scan.reads, writes |-> scan.writes]
            ELSE IF a.save_scan_result /\ scan.response.scan_result_path # <<>>
                THEN [errtype |-> "", error |-> "",
                      scan_results |-> json_load(scan.store[scan.response.scan_result_path]),
                      store |-> scan.store,
                      reads |-> Append(scan.reads, scan.response.scan_result_path),
                      writes |-> scan.writes]
            ELSE IF ~a.save_scan_result
                THEN IF "scan_results" \in scan.response.keys
                     THEN [errtype |-> "", error |-> "",
                           scan_results |-> scan.response.scan_results,
                           store |-> scan.store, reads |-> scan.reads,
                           writes |-> scan.writes]
                     ELSE [errtype |-> "KeyError", error |-> "scan_results",
                           scan_results |-> <<>>,
                           store |-> scan.store, reads |-> scan.reads,
                           writes |-> scan.writes]
            ELSE [errtype |-> "", error |-> "", scan_results |-> <<>>,
                  store |-> scan.store, reads |-> scan.reads, writes |-> scan.writes]
    IN  IF a.saved_scan_result_path # <<>>
        THEN mask_scan_results(
                 f, fault, a, answer,
                 of_saved(get_scan_results_from_saved_file(
                              f, st, a.saved_scan_result_path, a.file_path, a.directory_path,
                              a.recursive, a.include_pattern, a.exclude_pattern, a.data)))
        ELSE mask_scan_results(f, fault, a, answer,
                               of_scan(scan_secrets(f, st, now, fault, a)))

(***************************************************************************)
(* The calls the model makes: the arguments are drawn from small sets.     *)
(***************************************************************************)
FilePaths == {<<>>, <<"d", "a.t">>, FileC, <<"d", "none">>}
DirectoryPaths == {<<>>, <<"d">>, <<"nodir">>}
NamePatterns == {<<>>, << <<"*", ".", "j">> >>, << <<"c", "*">>, <<"?", ".", "t">> >>}
Texts == {<<>>, <<"a", "b", "c", "a", "b">>, <<"x", "x">>}
ResultPaths == {<<>>, <<"r.json">>}
SavedResultPaths == {<<"r.json">>, AutoResultPath(0), <<"missing.json">>}
RedactionTypes == {"FIXED_VALUE", "FIXED_LENGTH", "SECRET_NAME", "CUSTOM"}

AllTargets ==
    [file_path : FilePaths, directory_path : DirectoryPaths, recursive : BOOLEAN,
     include_pattern : NamePatterns, exclude_pattern : NamePatterns, data : Texts]

\* the targets that pass validation (recursive only varied with a directory)
Targets ==
    {t \in AllTargets :
        /\ validate_data_path(InitFs, t.file_path, t.directory_path,
                              t.include_pattern, t.exclude_pattern, t.data) = ""
        /\ (t.recursive => t.directory_path # <<>>)}

IncludeS == [Pattern |-> <<"s">>, Name |-> <<"S">>]
IncludeNoPattern == [Pattern |-> <<>>, Name |-> <<"S">>]
\* an Include entry whose name holds the text its pattern matches
IncludeC == [Pattern |-> <<"c">>, Name |-> <<"c", "k">>]
ExcludeH == [Id |-> "000", Name |-> <<"H">>]
ExcludeNoId == [Id |-> "", Name |-> <<"H">>]

CustomPattern(valid_json, has_include, include, has_exclude, exclude) ==
    [given |-> TRUE, valid_json |-> valid_json,
     has_include |-> has_include, Include |-> include,
     has_exclude |-> has_exclude, Exclude |-> exclude]

InvalidJson == CustomPattern(FALSE, FALSE, <<>>, FALSE, <<>>)

MalformedCustomPatterns ==
    {InvalidJson,
     CustomPattern(TRUE, TRUE, <<IncludeS, IncludeNoPattern>>, FALSE, <<>>),
     CustomPattern(TRUE, FALSE, <<>>, TRUE, <<ExcludeNoId>>)}

PatternConfigs ==
    {[confidence_level |-> "None", custom_pattern |-> NoCustomPattern],
     [confidence_level |-> "LOW", custom_pattern |-> NoCustomPattern],
     [confidence_level |-> "MEDIUM",
      custom_pattern |-> CustomPattern(TRUE, TRUE, <<IncludeS>>, TRUE, <<ExcludeH>>)],
     [confidence_level |-> "None",
      custom_pattern |-> CustomPattern(TRUE, TRUE, <<IncludeC>>, FALSE, <<>>)]}
    \cup {[confidence_level |-> "None", custom_pattern |-> c] : c \in MalformedCustomPatterns}

ValidPatternConfigs == {c \in PatternConfigs : c.custom_pattern \notin MalformedCustomPatterns}

\* one malformed and two well-formed configurations
SomePatternConfigs ==
    {c \in PatternConfigs : c.confidence_level # "LOW" /\
                            c.custom_pattern.has_include = c.custom_pattern.has_exclude}

SaveOptions ==
    [save_scan_result : BOOLEAN, scan_result_path : ResultPaths,
     continue_on_failure : BOOLEAN]

DefaultOptions ==
    [save_scan_result |-> FALSE, scan_result_path |-> <<>>, continue_on_failure |-> FALSE,
     confidence_level |-> "None", custom_pattern |-> NoCustomPattern]

DefaultMask == [redaction_type |-> "FIXED_VALUE", yes |-> FALSE]

MaskOptions == [redaction_type : RedactionTypes, yes : BOOLEAN]

\* the keyword arguments of one call (t: target, o: save options, c: pattern
\* configuration, m: mask options)
Call(t, o, c, m, saved_scan_result_path) ==
    [file_path |-> t.file_path, directory_path |-> t.directory_path,
     recursive |-> t.recursive, include_pattern |-> t.include_pattern,
     exclude_pattern |-> t.exclude_pattern, data |-> t.data,
     save_scan_result |-> o.save_scan_result, scan_result_path |-> o.scan_result_path,
     confidence_level |-> c.confidence_level, custom_pattern |-> c.custom_pattern,
     continue_on_failure |-> o.continue_on_failure,
     saved_scan_result_path |-> saved_scan_result_path,
     redaction_type |-> m.redaction_type, yes |-> m.yes]

\* An I/O failure the environment injects into a call: opening the file for
\* reading fails ("read"), opening it for writing fails ("open_w"), or the
\* write fails after the file has been opened for writing ("write").
NoFault == [kind |-> "none", path |-> <<>>]

Faults ==
    {[kind |-> k, path |-> p] : k \in {"read", "open_w", "write"}, p \in {FileA, FileC}}

ReadFaults == {x \in Faults : x.kind = "read"}

FileTargets == {t \in Targets : t.data = <<>>}

\* One run of a call: its arguments, the fault injected, and what the user
\* answers if asked.  The runs are a union of slices, each varying some of the
\* arguments in full: an invalid target meets only the default options, and a
\* fault only a target that has files.
Run(a, fault, answer) == [a |-> a, fault |-> fault, answer |-> answer]

ScanRuns ==
    {Run(Call(t, DefaultOptions, DefaultOptions, DefaultMask, <<>>), NoFault, FALSE) :
        t \in AllTargets}
    \cup {Run(Call(t, o, c, DefaultMask, <<>>), NoFault, FALSE) :
            t \in Targets, o \in SaveOptions, c \in PatternConfigs}
    \cup {Run(Call(t, o, c, DefaultMask, <<>>), x, FALSE) :
            t \in FileTargets, c \in SomePatternConfigs, x \in ReadFaults,
            o \in {o \in SaveOptions : o.scan_result_path = <<>>}}

\* mask_secrets that scans first
MaskScanRuns ==
    {Run(Call(t, o, c, [redaction_type |-> "FIXED_VALUE", yes |-> yes], <<>>),
         NoFault, answer) :
        t \in Targets, c \in SomePatternConfigs, yes \in BOOLEAN,
        answer \in BOOLEAN,
        o \in {o \in SaveOptions : ~o.continue_on_failure}}
    \cup {Run(Call(t, DefaultOptions, c, [redaction_type |-> r, yes |-> yes], <<>>),
              NoFault, TRUE) :
            t \in Targets, c \in ValidPatternConfigs, r \in RedactionTypes,
            yes \in BOOLEAN}
    \cup {Run(Call(t, [DefaultOptions EXCEPT !.continue_on_failure = cof], c,
                   [redaction_type |-> r, yes |-> TRUE], <<>>), x, FALSE) :
            t \in FileTargets, c \in SomePatternConfigs \cap ValidPatternConfigs,
            r \in {"FIXED_VALUE", "SECRET_NAME"}, cof \in BOOLEAN, x \in Faults}

\* mask_secrets that replays a saved scan result
MaskSavedRuns ==
    {Run(Call(t, DefaultOptions, DefaultOptions, [redaction_type |-> r, yes |-> yes], p),
         NoFault, answer) :
        t \in Targets, r \in RedactionTypes, yes \in BOOLEAN, answer \in BOOLEAN,
        p \in SavedResultPaths}
    \cup {Run(Call(t, [DefaultOptions EXCEPT !.continue_on_failure = cof], DefaultOptions,
                   [redaction_type |-> "FIXED_VALUE", yes |-> TRUE], <<"r.json">>),
              x, FALSE) :
            t \in FileTargets, cof \in BOOLEAN, x \in Faults}

(***************************************************************************)
(* The state machine: calls of scan_secrets and mask_secrets, one at a     *)
(* time, against the same files.                                           *)
(***************************************************************************)
NoCall ==
    [op |-> "none",
     args |-> Call([file_path |-> <<>>, directory_path |-> <<>>, recursive |-> FALSE,
                    include_pattern |-> <<>>, exclude_pattern |-> <<>>, data |-> <<>>],
                   DefaultOptions, DefaultOptions, DefaultMask, <<>>),
     fault |-> NoFault, answer |-> FALSE,
     outcome |-> "none", errtype |-> "", error |-> "",
     response |-> NoResponse,
     mask_result |-> [mask |-> FALSE, data |-> <<>>, file_path |-> <<>>,
                      directory_path |-> <<>>, recursive |-> FALSE],
     scan_results |-> <<>>,
     reads |-> <<>>, writes |-> <<>>, prompted |-> FALSE]

Init ==
    /\ fs = InitFs
    /\ store = <<>>
    /\ clock = 0
    /\ pc = "idle"
    /\ last = NoCall
    /\ pre = [fs |-> InitFs, store |-> <<>>]

Scan(a, fault) ==
    LET finish(r) ==
            /\ fs' = fs
            /\ store' = r.store
            /\ clock' = clock + 1
            /\ pc' = "done"
            /\ pre' = [fs |-> fs, store |-> store]
            /\ last' = [NoCall EXCEPT
                          !.op = "scan", !.args = a, !.fault = fault,
                          !.outcome = r.outcome, !.errtype = r.errtype, !.error = r.error,
                          !.response = r.response, !.reads = r.reads, !.writes = r.writes]
    IN  finish(scan_secrets(fs, store, clock, fault, a))

Mask(a, fault, answer) ==
    LET finish(r) ==
            /\ fs' = r.fs
            /\ store' = r.store
            /\ clock' = clock + 1
            /\ pc' = "done"
            /\ pre' = [fs |-> fs, store |-> store]
            /\ last' = [NoCall EXCEPT
                          !.op = "mask", !.args = a, !.fault = fault, !.answer = answer,
                          !.outcome = r.outcome, !.errtype = r.errtype, !.error = r.error,
                          !.mask_result = r.mask_result, !.scan_results = r.scan_results,
                          !.reads = r.reads, !.writes = r.writes, !.prompted = r.prompted]
    IN  finish(mask_secrets(fs, store, clock, fault, a, answer))

\* a session is scans followed by one mask: scans while clock < MaxScans
ScanSecrets ==
    /\ pc = "idle" /\ clock < MaxScans
    /\ \E r \in ScanRuns : Scan(r.a, r.fault)

MaskSecrets ==
    /\ pc = "idle"
    /\ \E r \in MaskScanRuns : Mask(r.a, r.fault, r.answer)

MaskSecretsFromSaved ==
    /\ pc = "idle"
    /\ \E r \in MaskSavedRuns : Mask(r.a, r.fault, r.answer)

\* the caller takes the response of a scan; the next call may start
Return ==
    /\ pc = "done"
    /\ last.op = "scan"
    /\ pc' = "idle"
    /\ last' = NoCall
    /\ pre' = [fs |-> fs, store |-> store]
    /\ UNCHANGED <<fs, store, clock>>

Next == ScanSecrets \/ MaskSecrets \/ MaskSecretsFromSaved \/ Return

Spec == Init /\ [][Next]_vars

(***************************************************************************)
(* Properties.                                                             *)
(***************************************************************************)
Finished(op) == pc = "done" /\ last.op = op

Returned(op) == Finished(op) /\ last.outcome = "returned"

\* the files a target selects, as the scan enumerates them
TargetFiles(f, a) ==
    (IF a.directory_path # <<>>
     THEN get_files_from_directory(f, abspath(a.directory_path), a.recursive,
                                   a.include_pattern, a.exclude_pattern)
     ELSE <<>>)
    \o (IF a.file_path # <<>> THEN <<abspath(a.file_path)>> ELSE <<>>)

ResultOfScan ==
    IF "scan_results" \in last.response.keys THEN last.response.scan_results
    ELSE IF last.response.scan_result_path \in DOMAIN store
        THEN json_load(store[last.response.scan_result_path])
    ELSE <<>>

\* what the finished scan_secrets call returns, run on the same files under
\* the same conditions, when it is not asked to save
UnsavedScan ==
    scan_secrets(pre.fs, pre.store, clock - 1, last.fault,
                 [last.args EXCEPT !.save_scan_result = FALSE, !.scan_result_path = <<>>])

SaveAsked == last.args.save_scan_result \/ last.args.scan_result_path # <<>>

\* the path a saving scan writes to
ResultPathOfScan ==
    IF last.args.scan_result_path # <<>> THEN abspath(last.args.scan_result_path)
    ELSE AutoResultPath(clock - 1)

\* C2 as stated: every scan_secrets call that returns with save_scan_result
\* set or scan_result_path given has written the scan result as JSON to the
\* result path, and its response names that file instead of carrying the
\* result inline (stated for the calls that meet no I/O failure).
C2_EverySavingScanWritesFile ==
    (Returned("scan") /\ SaveAsked /\ last.fault = NoFault)
        => /\ "scan_result_path" \in last.response.keys
           /\ "scan_results" \notin last.response.keys
           /\ last.response.scan_result_path = ResultPathOfScan
           /\ ResultPathOfScan \in DOMAIN store
           /\ json_load(store[ResultPathOfScan]) = UnsavedScan.response.scan_results

\* C2 amended: such a call whose scan result is non-empty has written it as
\* JSON to the result path (the given one made absolute, or the generated
\* one), that is the only file it wrote, and the response names it instead of
\* carrying the result inline; when the scan result is empty the call writes
\* nothing and the response carries scan_result_path = None and
\* secrets_detected = False.
C2_SavingScanWritesNonEmptyResult ==
    (Returned("scan") /\ SaveAsked)
        => /\ "scan_result_path" \in last.response.keys
           /\ "scan_results" \notin last.response.keys
           /\ IF UnsavedScan.response.scan_results # <<>>
              THEN /\ last.response.scan_result_path = ResultPathOfScan
                   /\ ResultPathOfScan \in DOMAIN store
                   /\ json_load(store[ResultPathOfScan])
                          = UnsavedScan.response.scan_results
                   /\ last.writes = <<ResultPathOfScan>>
                   /\ \A p \in DOMAIN pre.store \ {ResultPathOfScan} :
                          p \in DOMAIN store /\ store[p] = pre.store[p]
              ELSE /\ last.response.scan_result_path = <<>>
                   /\ ~last.response.secrets_detected
                   /\ last.writes = <<>>
                   /\ store = pre.store

\* a scan of a directory given only scan_result_path, with secrets in two files
C2_Witness ==
    /\ Returned("scan")
    /\ ~last.args.save_scan_result /\ last.args.scan_result_path # <<>>
    /\ last.args.directory_path # <<>>
    /\ ResultPathOfScan \in DOMAIN store
    /\ Len(json_load(store[ResultPathOfScan])) >= 2

\* C3: a call given scan_result_path and not save_scan_result ends as the same
\* call with save_scan_result = True does: same error or none, same response
\* or mask result, same files and same saved documents.
C3_ResultPathImpliesSave ==
    (pc = "done" /\ last.op \in {"scan", "mask"}
     /\ last.args.scan_result_path # <<>> /\ ~last.args.save_scan_result)
        => LET with_save == [last.args EXCEPT !.save_scan_result = TRUE]
               scan == scan_secrets(pre.fs, pre.store, clock - 1, last.fault, with_save)
               mask == mask_secrets(pre.fs, pre.store, clock - 1, last.fault, with_save,
                                    last.answer)
           IN  IF last.op = "scan"
               THEN /\ scan.outcome = last.outcome /\ scan.errtype = last.errtype
                    /\ scan.response = last.response /\ scan.store = store
               ELSE /\ mask.outcome = last.outcome /\ mask.errtype = last.errtype
                    /\ mask.mask_result = last.mask_result
                    /\ mask.store = store /\ mask.fs = fs

MalformedPatternErrors ==
    {"Custom pattern should be in valid json format",
     "Pattern property is required for Include patterns",
     "Id property is required for Exclude patterns"}

ValidTarget(a) ==
    validate_data_path(pre.fs, a.file_path, a.directory_path,
                       a.include_pattern, a.exclude_pattern, a.data) = ""

\* C4: a malformed custom-pattern document makes scan_secrets fail with a
\* user-input error for every kind of target, with or without
\* continue_on_failure, before any target file is read (stated for the calls
\* that meet no I/O failure).
C4_MalformedPatternAlwaysFails ==
    (Finished("scan") /\ ValidTarget(last.args) /\ last.fault = NoFault
     /\ last.args.custom_pattern \in MalformedCustomPatterns)
        => /\ last.outcome = "raised"
           /\ last.errtype = "ValueError"
           /\ last.error \in MalformedPatternErrors
           /\ last.reads = <<>>

\* an argument counts as supplied when it is truthy
Supplied(x) == x # <<>>

NumberOfTargets(a) ==
    (IF Supplied(a.file_path) THEN 1 ELSE 0)
    + (IF Supplied(a.directory_path) THEN 1 ELSE 0)
    + (IF Supplied(a.data) THEN 1 ELSE 0)

Misconfigured(a) ==
    \/ NumberOfTargets(a) # 1
    \/ (Supplied(a.include_pattern) \/ Supplied(a.exclude_pattern))
           /\ ~Supplied(a.directory_path)
    \/ Supplied(a.include_pattern) /\ Supplied(a.exclude_pattern)

\* C5: scan_secrets raises a configuration error (ValueError), having read
\* and written no file, whenever it is given more than one of file_path,
\* directory_path and data, or none of them, or include_pattern or
\* exclude_pattern without directory_path, or both of these patterns.
C5_MisconfigurationRaisesBeforeIO ==
    (Finished("scan") /\ Misconfigured(last.args))
        => /\ last.outcome = "raised"
           /\ last.errtype = "ValueError"
           /\ last.reads = <<>> /\ last.writes = <<>>
           /\ fs = pre.fs /\ store = pre.store

\* a scan of an existing directory given both patterns
C5_Witness ==
    /\ Finished("scan") /\ last.outcome = "raised"
    /\ isdir(last.args.directory_path)
    /\ NumberOfTargets(last.args) = 1
    /\ Supplied(last.args.include_pattern) /\ Supplied(last.args.exclude_pattern)

\* C6: round trip.  After a scan that saved a non-empty result, loading the
\* saved file and filtering it by the same target gives the mapping (same
\* keys in the same order, same finding lists) that the same scan returns
\* inline when it is not asked to save.
C6_SavedScanRoundTrip ==
    (Returned("scan") /\ SaveAsked /\ last.response.scan_result_path # <<>>)
        => LET a == last.args
               replay == get_scan_results_from_saved_file(
                             fs, store, last.response.scan_result_path,
                             a.file_path, a.directory_path, a.recursive,
                             a.include_pattern, a.exclude_pattern, a.data)
           IN  /\ replay.errtype = ""
               /\ replay.scan_results # <<>>
               /\ replay.scan_results = UnsavedScan.response.scan_results

\* a saving scan of a file named by a relative path, with findings
C6_Witness ==
    /\ Returned("scan") /\ SaveAsked
    /\ last.response.scan_result_path \in DOMAIN store
    /\ last.args.file_path # <<>> /\ last.args.file_path[1] # "/"

\* the text that replaces a secret under a redaction type
Replacement(redaction_type, secret) ==
    CASE redaction_type = "FIXED_VALUE" -> <<"*", "*", "*">>
      [] redaction_type = "FIXED_LENGTH" -> [i \in 1..Len(secret.secret_value) |-> "*"]
      [] redaction_type = "SECRET_NAME" -> secret.secret_name
      [] OTHER -> secret.redaction_token

\* text after replacing, finding by finding in list order, every occurrence
\* of the finding's secret_value
RECURSIVE Redacted(_, _, _)
Redacted(text, secrets, redaction_type) ==
    IF secrets = <<>> THEN text
    ELSE Redacted(str_replace(text, Head(secrets).secret_value,
                              Replacement(redaction_type, Head(secrets))),
                  Tail(secrets), redaction_type)

\* C7: the text mask_secrets produces (the data it returns, or the content
\* of each file it rewrote) is the original text with, for each finding in
\* list order, every literal occurrence of its secret_value replaced by "***",
\* by as many "*" as the value is long, by secret_name or by redaction_token,
\* according to the redaction type.
C7_MaskReplacesEveryOccurrence ==
    (Returned("mask") /\ last.mask_result.mask)
        => IF RawData \in Keys(last.scan_results)
           THEN last.mask_result.data =
                    Redacted(last.args.data, Get(last.scan_results, RawData),
                             last.args.redaction_type)
           ELSE \A i \in 1..Len(last.scan_results) :
                    LET k == last.scan_results[i].key
                    IN  last.fault.path # k
                            => fs[k] = Redacted(pre.fs[k], last.scan_results[i].secrets,
                                                last.args.redaction_type)

\* inline data holding the same secret twice, masked by the secret's name
C7_Witness ==
    /\ Returned("mask") /\ last.mask_result.mask
    /\ RawData \in Keys(last.scan_results)
    /\ Len(Get(last.scan_results, RawData)) >= 2
    /\ last.args.redaction_type = "SECRET_NAME"
    /\ last.mask_result.data # last.args.data

PositionOf(d, k) == CHOOSE i \in 1..Len(d) : d[i].key = k

\* C8: when the read or the write of one file of the scan result fails while
\* mask_secrets rewrites files: under continue_on_failure that file keeps its
\* content and every other file of the scan result is redacted; otherwise the
\* call aborts with the error, the later files of the scan result are
\* untouched and the earlier ones stay rewritten.
C8_FileFailureIsContained ==
    (Finished("mask") /\ last.fault # NoFault
     /\ (last.args.yes \/ last.answer)
     /\ last.fault.path \in Keys(last.scan_results)
     /\ pre.fs[last.fault.path] # <<>>)
        => LET sr == last.scan_results
               at == PositionOf(sr, last.fault.path)
               redacted(i) == fs[sr[i].key] = Redacted(pre.fs[sr[i].key], sr[i].secrets,
                                                       last.args.redaction_type)
           IN  IF last.args.continue_on_failure
               THEN /\ last.outcome = "returned"
                    /\ fs[last.fault.path] = pre.fs[last.fault.path]
                    /\ \A i \in 1..Len(sr) : i # at => redacted(i)
               ELSE /\ last.outcome = "raised" /\ last.errtype = "OSError"
                    /\ \A i \in 1..Len(sr) : i > at => fs[sr[i].key] = pre.fs[sr[i].key]
                    /\ \A i \in 1..Len(sr) : i < at => redacted(i)

\* the findings of the target files other than skip, file by file: what a
\* scan is to report when only the file skip can not be read
RECURSIVE FindingsExcept(_, _, _, _)
FindingsExcept(f, a, files, skip) ==
    IF files = <<>> THEN <<>>
    ELSE LET secrets == scan_secrets_for_string(f[Head(files)], a.confidence_level,
                                                a.custom_pattern).secrets
         IN  (IF Head(files) # skip /\ secrets # <<>>
              THEN <<[key |-> Head(files), secrets |-> secrets]>> ELSE <<>>)
             \o FindingsExcept(f, a, Tail(files), skip)

\* C9: when the read of a target file fails during a file or directory scan,
\* the scan by default aborts with an error (that of the read, the custom
\* pattern being well-formed), returns no result and saves nothing; under
\* continue_on_failure it returns, every target file has been opened, and
\* the result (inline or saved) holds the findings of every other file.
C9_ReadFailureAbortsOrSkips ==
    (Finished("scan") /\ last.fault.kind = "read" /\ ValidTarget(last.args)
     /\ Contains(TargetFiles(pre.fs, last.args), last.fault.path))
        => IF last.args.continue_on_failure
           THEN /\ last.outcome = "returned"
                /\ last.reads = TargetFiles(pre.fs, last.args)
                /\ ResultOfScan = FindingsExcept(pre.fs, last.args,
                                                 TargetFiles(pre.fs, last.args),
                                                 last.fault.path)
           ELSE /\ last.outcome = "raised"
                /\ last.args.custom_pattern \notin MalformedCustomPatterns
                       => last.errtype = "OSError"
                /\ last.response = NoResponse
                /\ last.writes = <<>> /\ store = pre.store

\* the first file of a directory can not be read, a later one has findings
C9_Witness ==
    /\ Returned("scan") /\ last.args.continue_on_failure
    /\ last.fault = [kind |-> "read", path |-> FileA]
    /\ last.args.directory_path # <<>>
    /\ FileC \in Keys(ResultOfScan)

\* C10: in every result of scan_secrets, inline or saved, every key has a
\* non-empty finding list and is the target (a target file, or "raw_data"
\* for inline data), an empty file has no key, and secrets_detected is true
\* exactly when the mapping is non-empty.
C10_NoEmptyFindingLists ==
    Returned("scan")
        => /\ \A i \in 1..Len(ResultOfScan) : ResultOfScan[i].secrets # <<>>
           /\ last.response.secrets_detected <=> (ResultOfScan # <<>>)
           /\ last.response.scan_result_path # <<>>
                  => last.response.scan_result_path \in DOMAIN store
           /\ \A k \in Keys(ResultOfScan) :
                  IF last.args.data # <<>> THEN k = RawData
                  ELSE Contains(TargetFiles(pre.fs, last.args), k) /\ pre.fs[k] # <<>>

\* a saved scan of the whole tree: the empty file and the file without
\* secrets are targets, and are not keys of the saved result
C10_Witness ==
    /\ Returned("scan") /\ last.response.scan_result_path \in DOMAIN store
    /\ Contains(TargetFiles(pre.fs, last.args), FileE)
    /\ Contains(TargetFiles(pre.fs, last.args), FileB)
    /\ Keys(ResultOfScan) = {FileA, FileC}

\* the characters of the base name of a path
BaseName(p) == NameChars[p[Len(p)]]

MatchesAny(name, patterns) == \E i \in 1..Len(patterns) : fnmatch(name, patterns[i])

\* the retention rule: included (or nothing to include) and not excluded
Retained(name, include_pattern, exclude_pattern) ==
    /\ include_pattern = <<>> \/ MatchesAny(name, include_pattern)
    /\ ~(exclude_pattern # <<>> /\ MatchesAny(name, exclude_pattern))

\* path p lies below directory d, at any depth
Under(p, d) == Len(p) > Len(d) /\ SubSeq(p, 1, Len(d)) = d

\* the files a directory scan chooses from
Candidates(f, d, recursive) ==
    {p \in DOMAIN f : Under(p, d) /\ (recursive \/ Len(p) = Len(d) + 1)}

\* the findings a scan with arguments a reports for file p, read alone
FindingsOf(f, a, p) ==
    scan_secrets_for_string(f[p], a.confidence_level, a.custom_pattern).secrets

\* C11: in a directory scan the target files are exactly the candidate files
\* whose base name is retained, i.e. (include_pattern is empty or the name
\* matches one of its patterns) and not (exclude_pattern is non-empty and the
\* name matches one of its patterns); the file filter computes that rule for
\* every name and pair of pattern lists; no file that is not retained is a
\* key of the result, and every retained file with findings is one when
\* every file can be read.
C11_RetainedExactlyByPatterns ==
    (Returned("scan") /\ last.args.directory_path # <<>>)
        => LET a == last.args
               d == abspath(a.directory_path)
               retained == {p \in Candidates(pre.fs, d, a.recursive) :
                               Retained(BaseName(p), a.include_pattern, a.exclude_pattern)}
           IN  /\ Range(TargetFiles(pre.fs, a)) = retained
               /\ Keys(ResultOfScan) \subseteq retained
               /\ last.fault = NoFault
                      => Keys(ResultOfScan) = {p \in retained : FindingsOf(pre.fs, a, p) # <<>>}
               /\ \A n \in DOMAIN NameChars : \A inc, exc \in NamePatterns :
                      check_file_include_and_exclude_pattern(NameChars[n], inc, exc)
                          <=> Retained(NameChars[n], inc, exc)

\* a recursive scan that includes "*.j" only: a.t holds a secret and is not
\* a key of the result, c.j is
C11_Witness ==
    /\ Returned("scan") /\ last.fault = NoFault
    /\ last.args.directory_path # <<>> /\ last.args.recursive
    /\ last.args.include_pattern = << <<"*", ".", "j">> >>
    /\ FindingsOf(pre.fs, last.args, FileA) # <<>>
    /\ Keys(ResultOfScan) = {FileC}

\* C12: a directory scan without recursive takes its target files among the
\* regular files that are immediate children of the directory (a
\* subdirectory is not one), so no key of its result lies deeper; with
\* recursive it takes them among the files of the whole subtree, every
\* retained file at any depth being a target, and every such file with
\* findings is a key of the result when every file can be read.
C12_RecursiveWalksWholeSubtree ==
    (Returned("scan") /\ last.args.directory_path # <<>>)
        => LET a == last.args
               d == abspath(a.directory_path)
               targets == Range(TargetFiles(pre.fs, a))
               kept(p) == Retained(BaseName(p), a.include_pattern, a.exclude_pattern)
               child(p) == Under(p, d) /\ Len(p) = Len(d) + 1
           IN  IF ~a.recursive
               THEN /\ targets = {p \in DOMAIN pre.fs : child(p) /\ kept(p)}
                    /\ \A k \in Keys(ResultOfScan) : child(k)
               ELSE /\ targets = {p \in DOMAIN pre.fs : Under(p, d) /\ kept(p)}
                    /\ last.fault = NoFault
                           => \A p \in DOMAIN pre.fs :
                                  (Under(p, d) /\ kept(p) /\ FindingsOf(pre.fs, a, p) # <<>>)
                                      => p \in Keys(ResultOfScan)

\* a recursive scan of d without patterns: c.j, in the subdirectory, is a key
C12_Witness ==
    /\ Returned("scan") /\ last.fault = NoFault
    /\ last.args.directory_path # <<>> /\ last.args.recursive
    /\ last.args.include_pattern = <<>> /\ last.args.exclude_pattern = <<>>
    /\ Under(FileC, DirS) /\ Under(DirS, abspath(last.args.directory_path))
    /\ FileC \in Keys(ResultOfScan)

\* the scan result mask_secrets is to work on: that of the saved file
\* filtered by the target, or that of a scan of the target
SavedResultForTarget ==
    get_scan_results_from_saved_file(pre.fs, pre.store, last.args.saved_scan_result_path,
                                     last.args.file_path, last.args.directory_path,
                                     last.args.recursive, last.args.include_pattern,
                                     last.args.exclude_pattern, last.args.data)

NothingFoundForTarget ==
    IF last.args.saved_scan_result_path # <<>>
    THEN SavedResultForTarget.errtype = "" /\ SavedResultForTarget.scan_results = <<>>
    ELSE UnsavedScan.outcome = "returned" /\ UnsavedScan.response.scan_results = <<>>

\* C13: when the scan result for the target is empty (the scan, or the
\* filtered saved result, succeeds and holds no finding), mask_secrets returns
\* mask = False with the data it was given, changes no file and does not ask
\* for confirmation, whatever yes is.
C13_EmptyScanResultMasksNothing ==
    (Finished("mask") /\ NothingFoundForTarget)
        => /\ last.outcome = "returned"
           /\ last.mask_result.mask = FALSE
           /\ last.mask_result.data = last.args.data
           /\ fs = pre.fs
           /\ ~last.prompted

(***************************************************************************)
(* The pattern registry on its own: the call starts from a confidence      *)
(* level and a custom pattern (pre) and leaves what it loaded (last).      *)
(***************************************************************************)
ConfidenceLevels == {"None", "HIGH", "MEDIUM", "LOW"}

IncludeT == [Pattern |-> <<"x", "s">>, Name |-> <<"T">>]
ExcludeM == [Id |-> "001", Name |-> <<"M">>]
ExcludeUnknown == [Id |-> "999", Name |-> <<"U">>]

IncludeLists == {<<>>, <<IncludeS>>, <<IncludeS, IncludeT>>, <<IncludeS, IncludeNoPattern>>}
ExcludeLists == {<<>>, <<ExcludeH>>, <<ExcludeH, ExcludeM>>, <<ExcludeUnknown>>,
                 <<ExcludeUnknown, ExcludeM>>, <<ExcludeNoId>>}

CustomPatterns ==
    {NoCustomPattern, InvalidJson}
    \cup {CustomPattern(TRUE, FALSE, <<>>, FALSE, <<>>)}
    \cup {CustomPattern(TRUE, TRUE, inc, FALSE, <<>>) : inc \in IncludeLists}
    \cup {CustomPattern(TRUE, FALSE, <<>>, TRUE, exc) : exc \in ExcludeLists}
    \cup {CustomPattern(TRUE, TRUE, inc, TRUE, exc) : inc \in IncludeLists, exc \in ExcludeLists}

PatternInit ==
    /\ fs = InitFs
    /\ store = <<>>
    /\ clock = 0
    /\ pc = "idle"
    /\ last = NoCall
    /\ pre \in [confidence_level : ConfidenceLevels, custom_pattern : CustomPatterns]

\* _load_built_in_regex_patterns(confidence_level), called twice
LoadBuiltInRegexPatterns ==
    /\ pc = "idle"
    /\ pc' = "done"
    /\ last' = [op |-> "load_built_in_regex_patterns",
                patterns |-> load_built_in_regex_patterns(pre.confidence_level),
                again |-> load_built_in_regex_patterns(pre.confidence_level)]
    /\ UNCHANGED <<fs, store, clock, pre>>

\* _load_regex_patterns(confidence_level, custom_pattern)
LoadRegexPatterns ==
    /\ pc = "idle"
    /\ pc' = "done"
    /\ last' = [op |-> "load_regex_patterns",
                loaded |-> load_regex_patterns(pre.confidence_level, pre.custom_pattern)]
    /\ UNCHANGED <<fs, store, clock, pre>>

PatternNext == LoadBuiltInRegexPatterns \/ LoadRegexPatterns

PatternSpec == PatternInit /\ [][PatternNext]_vars

\* the built-in patterns of a confidence tier, as a set
Tier(confidence_level) ==
    CASE confidence_level \in {"None", "HIGH"} -> Range(HighConfidenceSecurityModels)
      [] confidence_level = "MEDIUM" ->
            Range(HighConfidenceSecurityModels) \cup Range(MediumConfidenceSecurityModels)
      [] confidence_level = "LOW" ->
            Range(HighConfidenceSecurityModels) \cup Range(MediumConfidenceSecurityModels)
            \cup Range(LowConfidenceSecurityModels)

\* C14: when _load_regex_patterns succeeds, the active pattern set is the
\* built-in patterns of the confidence tier minus those whose id an Exclude
\* entry names, together with one pattern per Include entry; an Exclude id
\* of no built-in pattern removes nothing; without a custom pattern, or with
\* neither Include nor Exclude, the set is exactly the built-in patterns.
C14_ActivePatternSet ==
    (pc = "done" /\ last.op = "load_regex_patterns" /\ last.loaded.err = "")
        => LET c == pre.custom_pattern
               active == last.loaded.patterns
               inc == IF c.given /\ c.has_include THEN c.Include ELSE <<>>
               exc == IF c.given /\ c.has_exclude THEN c.Exclude ELSE <<>>
               ids == {exc[i].Id : i \in 1..Len(exc)}
               kept == {b \in Tier(pre.confidence_level) : b.id \notin ids}
               added == {load_regex_pattern_from_json(inc[i]) : i \in 1..Len(inc)}
           IN  /\ Range(active) = kept \cup added
               /\ Len(active) = Cardinality(kept) + Len(inc)
               /\ ids \cap {b.id : b \in Tier(pre.confidence_level)} = {}
                      => Tier(pre.confidence_level) \subseteq Range(active)
               /\ (~c.given \/ (~c.has_include /\ ~c.has_exclude))
                      => Range(active) = Tier(pre.confidence_level)

\* MEDIUM with two Include entries and an Exclude list naming an unknown id
\* and a built-in one: two patterns added, one removed, one kept
C14_Witness ==
    /\ pc = "done" /\ last.op = "load_regex_patterns" /\ last.loaded.err = ""
    /\ pre.confidence_level = "MEDIUM"
    /\ pre.custom_pattern.Include = <<IncludeS, IncludeT>>
    /\ pre.custom_pattern.Exclude = <<ExcludeUnknown, ExcludeM>>
    /\ Len(last.loaded.patterns) = 3

DigitValue ==
    [c \in {"0", "1", "2", "3", "4", "5", "6", "7", "8", "9"} |->
        CASE c = "0" -> 0 [] c = "1" -> 1 [] c = "2" -> 2 [] c = "3" -> 3 [] c = "4" -> 4
          [] c = "5" -> 5 [] c = "6" -> 6 [] c = "7" -> 7 [] c = "8" -> 8 [] c = "9" -> 9]

\* the release numbers of s from character i on; number is the value of the
\* digits read since the last dot, -1 when there is none
RECURSIVE parse_release(_, _, _, _)
parse_release(s, i, number, release) ==
    IF i > Len(s)
    THEN IF number < 0 THEN [valid |-> FALSE, release |-> <<>>]
         ELSE [valid |-> TRUE, release |-> Append(release, number)]
    ELSE IF s[i] \in DOMAIN DigitValue
         THEN parse_release(s, i + 1,
                            (IF number < 0 THEN 0 ELSE number * 10) + DigitValue[s[i]],
                            release)
    ELSE IF s[i] = "." /\ number >= 0
         THEN parse_release(s, i + 1, -1, Append(release, number))
    ELSE [valid |-> FALSE, release |-> <<>>]

\* packaging.version.parse: valid is FALSE where InvalidVersion is raised
version_parse(version) == parse_release(version, 1, -1, <<>>)

\* the release without its trailing zeros, as packaging compares it
RECURSIVE strip_trailing_zeros(_)
strip_trailing_zeros(release) ==
    IF release # <<>> /\ release[Len(release)] = 0
    THEN strip_trailing_zeros(SubSeq(release, 1, Len(release) - 1))
    ELSE release

\* tuple comparison a <= b
RECURSIVE tuple_le(_, _)
tuple_le(a, b) ==
    IF a = <<>> THEN TRUE
    ELSE IF b = <<>> THEN FALSE
    ELSE IF Head(a) # Head(b) THEN Head(a) < Head(b)
    ELSE tuple_le(Tail(a), Tail(b))

\* a comparison that leaves equal versions out
version_lt(a, b) ==
    /\ tuple_le(strip_trailing_zeros(a.release), strip_trailing_zeros(b.release))
    /\ strip_trailing_zeros(a.release) # strip_trailing_zeros(b.release)

\* target_version <= parsed_max_version
version_le(a, b) ==
    tuple_le(strip_trailing_zeros(a.release), strip_trailing_zeros(b.release))

(***************************************************************************)
(* Breaking changes: filtering and grouping of BreakingChangeItem records. *)
(* An absent target_version (None or '') is the empty sequence.            *)
(***************************************************************************)
BreakingChangeItem(module, command, detail, target_version) ==
    [module |-> module, command |-> command, detail |-> detail,
     target_version |-> target_version]

\* a filter that gives up when the max version does not parse
nothing_yielded(iterator) == <<>>

\* yield from iterator
unfiltered(iterator) == iterator

filter_breaking_changes(iterator, max_version) ==
    IF max_version = <<>> THEN unfiltered(iterator)
    ELSE IF ~version_parse(max_version).valid THEN unfiltered(iterator)
    ELSE SelectSeq(iterator,
                   LAMBDA item :
                       /\ item.target_version # <<>>
                       /\ version_parse(item.target_version).valid
                       /\ version_le(version_parse(item.target_version),
                                     version_parse(max_version)))

\* a defaultdict is a sequence of [k, v] entries in insertion order
DictKeys(d) == {d[i].k : i \in 1..Len(d)}

\* d[k], which a defaultdict creates empty when it is missing
DictGet(d, k) == IF k \in DictKeys(d) THEN d[CHOOSE i \in 1..Len(d) : d[i].k = k].v ELSE <<>>

DictSet(d, k, v) ==
    IF k \in DictKeys(d)
    THEN [i \in 1..Len(d) |-> IF d[i].k = k THEN [k |-> k, v |-> v] ELSE d[i]]
    ELSE Append(d, [k |-> k, v |-> v])

Unspecific == <<"U", "n", "s", "p", "e", "c", "i", "f", "i", "c">>

\* a grouping that files a record without target_version under an empty label
version_or_empty(target_version) == target_version

\* version = item.target_version if item.target_version else 'Unspecific'
version_or_unspecific(target_version) ==
    IF target_version # <<>> THEN target_version ELSE Unspecific

RECURSIVE group_items(_, _, _)
group_items(iterator, group_by_version, upcoming_breaking_changes) ==
    IF iterator = <<>> THEN upcoming_breaking_changes
    ELSE LET item == Head(iterator)
             version == version_or_unspecific(item.target_version)
             of_module == DictGet(upcoming_breaking_changes, item.module)
             of_command == DictGet(of_module, item.command)
             appended ==
                 IF group_by_version
                 THEN DictSet(of_command, version,
                              Append(DictGet(of_command, version), item.detail))
                 ELSE Append(of_command, item.detail)
         IN  group_items(Tail(iterator), group_by_version,
                         DictSet(upcoming_breaking_changes, item.module,
                                 DictSet(of_module, item.command, appended)))

group_breaking_change_items(iterator, group_by_version) ==
    group_items(iterator, group_by_version, <<>>)

\* azure.cli.core.breaking_change.NEXT_BREAKING_CHANGE_RELEASE
NEXT_BREAKING_CHANGE_RELEASE == <<"3", ".", "0", ".", "0">>

NextWindow == <<"N", "e", "x", "t", "W", "i", "n", "d", "o", "w">>

\* str.lower on the letters the model uses
lower(text) ==
    [i \in 1..Len(text) |->
        CASE text[i] = "N" -> "n" [] text[i] = "O" -> "o" [] text[i] = "E" -> "e"
          [] text[i] = "W" -> "w" [] text[i] = "U" -> "u" [] OTHER -> text[i]]

\* lines 296-300: the max version the filter is given
resolve_target_version(target_version) ==
    IF target_version = NextWindow THEN NEXT_BREAKING_CHANGE_RELEASE
    ELSE IF lower(target_version) = <<"n", "o", "n", "e">> THEN <<>>
    ELSE target_version

\* the pipeline of collect_upcoming_breaking_changes over the records the
\* walk yields, for output_format 'structure'
collect_upcoming_breaking_changes(breaking_changes, target_version, group_by_version) ==
    LET max_version == resolve_target_version(target_version)
        filtered == filter_breaking_changes(breaking_changes, max_version)
    IN  [max_version |-> max_version,
         filtered |-> filtered,
         grouped |-> group_breaking_change_items(filtered, group_by_version)]

(***************************************************************************)
(* The filter, the grouping and the pipeline on their own: a call starts   *)
(* from the records, max version and grouping flag in pre and leaves its   *)
(* result in last.                                                         *)
(***************************************************************************)
MaxItems == 3

V2_0_0 == <<"2", ".", "0", ".", "0">>
V3_0 == <<"3", ".", "0">>
V3_0_0 == <<"3", ".", "0", ".", "0">>
V10_0_0 == <<"1", "0", ".", "0", ".", "0">>
NotAVersion == <<"T", "B", "D">>
NoneText == <<"N", "o", "n", "e">>
NoneUpperText == <<"N", "O", "N", "E">>

ItemPool ==
    {BreakingChangeItem("m1", "c1", "d1", V2_0_0),
     BreakingChangeItem("m1", "c1", "d2", <<>>),
     BreakingChangeItem("m1", "c2", "d1", V3_0),
     BreakingChangeItem("m2", "c1", "d3", NotAVersion),
     BreakingChangeItem("m1", "c1", "d3", V10_0_0),
     BreakingChangeItem("m2", "c3", "d1", V2_0_0)}

SeqsUpTo(S, n) == UNION {[1..k -> S] : k \in 0..n}

MaxVersions == {<<>>, V2_0_0, V3_0_0, NotAVersion}

TargetVersionOptions == {NextWindow, NoneText, NoneUpperText, V2_0_0, NotAVersion}

FilterInit ==
    /\ fs = InitFs
    /\ store = <<>>
    /\ clock = 0
    /\ pc = "idle"
    /\ last = NoCall
    /\ pre \in [items : SeqsUpTo(ItemPool, MaxItems),
                max_version : MaxVersions \cup TargetVersionOptions,
                group_by_version : BOOLEAN]

FilterBreakingChanges ==
    /\ pc = "idle"
    /\ pc' = "done"
    /\ last' = [op |-> "filter_breaking_changes",
                items |-> filter_breaking_changes(pre.items, pre.max_version)]
    /\ UNCHANGED <<fs, store, clock, pre>>

GroupBreakingChangeItems ==
    /\ pc = "idle"
    /\ pc' = "done"
    /\ last' = [op |-> "group_breaking_change_items",
                grouped |-> group_breaking_change_items(pre.items, pre.group_by_version)]
    /\ UNCHANGED <<fs, store, clock, pre>>

CollectUpcomingBreakingChanges ==
    /\ pc = "idle"
    /\ pre.max_version \in TargetVersionOptions
    /\ pc' = "done"
    /\ last' = [op |-> "collect_upcoming_breaking_changes",
                collected |-> collect_upcoming_breaking_changes(
                                  pre.items, pre.max_version, pre.group_by_version)]
    /\ UNCHANGED <<fs, store, clock, pre>>

FilterNext ==
    FilterBreakingChanges \/ GroupBreakingChangeItems \/ CollectUpcomingBreakingChanges

FilterSpec == FilterInit /\ [][FilterNext]_vars

\* the order of the versions the records and max versions are written with:
\* 2.0.0 < 3.0 = 3.0.0 < 10.0.0
Rank == (V2_0_0 :> 2) @@ (V3_0 :> 3) @@ (V3_0_0 :> 3) @@ (V10_0_0 :> 10)

NotAfter(item, max_version) ==
    item.target_version \in DOMAIN Rank /\ Rank[item.target_version] <= Rank[max_version]

C17_NoUsableMaxVersionKeepsAll ==
    /\ (pc = "done" /\ last.op = "filter_breaking_changes"
        /\ pre.max_version \notin DOMAIN Rank)
           => last.items = pre.items
    /\ (pc = "done" /\ last.op = "collect_upcoming_breaking_changes"
        /\ pre.max_version \in {NoneText, NoneUpperText})
           => last.collected.max_version = <<>> /\ last.collected.filtered = pre.items
    /\ (pc = "done" /\ last.op = "collect_upcoming_breaking_changes"
        /\ pre.max_version = NotAVersion)
           => last.collected.filtered = pre.items

\* a max version that does not parse: three records, one of them without a
\* target_version, all yielded
C17_Witness ==
    /\ pc = "done" /\ last.op = "filter_breaking_changes"
    /\ pre.max_version = NotAVersion
    /\ Len(pre.items) = 3 /\ pre.items[2].target_version = <<>>
    /\ last.items = pre.items

DetailsOf(items) == [i \in 1..Len(items) |-> items[i].detail]

Label(item) == IF item.target_version = <<>> THEN Unspecific ELSE item.target_version

\* C18: _group_breaking_change_items puts the detail of every input record
\* exactly once in the list at module -> command (or at module -> command
\* -> version when group_by_version, the version being 'Unspecific' for a
\* record without target_version): each list is the details, in input
\* order, of the records of its module, command (and version), and there is
\* a list only where there is a record.
C18_GroupingPlacesEveryDetailOnce ==
    (pc = "done" /\ last.op = "group_breaking_change_items")
        => LET g == last.grouped
               items == pre.items
               inM(m) == SelectSeq(items, LAMBDA r : r.module = m)
               inC(m, c) == SelectSeq(items, LAMBDA r : r.module = m /\ r.command = c)
               inV(m, c, v) == SelectSeq(items, LAMBDA r : r.module = m /\ r.command = c
                                                          /\ Label(r) = v)
           IN  /\ DictKeys(g) = {r.module : r \in Range(items)}
               /\ Len(g) = Cardinality(DictKeys(g))
               /\ \A m \in DictKeys(g) :
                      LET of_m == DictGet(g, m)
                      IN  /\ DictKeys(of_m) = {r.command : r \in Range(inM(m))}
                          /\ Len(of_m) = Cardinality(DictKeys(of_m))
                          /\ \A c \in DictKeys(of_m) :
                                 LET of_c == DictGet(of_m, c)
                                 IN  IF ~pre.group_by_version
                                     THEN of_c = DetailsOf(inC(m, c))
                                     ELSE /\ DictKeys(of_c) = {Label(r) : r \in Range(inC(m, c))}
                                          /\ Len(of_c) = Cardinality(DictKeys(of_c))
                                          /\ \A v \in DictKeys(of_c) :
                                                 DictGet(of_c, v) = DetailsOf(inV(m, c, v))

\* grouped by version: one command with a record at 2.0.0 and, around it,
\* two without target_version, whose details share the 'Unspecific' list
C18_Witness ==
    /\ pc = "done" /\ last.op = "group_breaking_change_items"
    /\ pre.group_by_version
    /\ DetailsOf(pre.items) = <<"d2", "d1", "d2">>
    /\ DictGet(DictGet(DictGet(last.grouped, "m1"), "c1"), Unspecific) = <<"d2", "d2">>
    /\ DictGet(DictGet(DictGet(last.grouped, "m1"), "c1"), V2_0_0) = <<"d1">>

(***************************************************************************)
(* Breaking changes: the walk over the command table.  Texts are sequences *)
(* of characters, None is the empty sequence.  Status tags are objects:    *)
(* tags maps the identity of each tag to its fields, a reference to a tag  *)
(* is its identity, and an assignment to a field of a tag changes tags.    *)
(***************************************************************************)
\* '/'.join(texts)
RECURSIVE join(_)
join(texts) ==
    IF texts = <<>> THEN <<>>
    ELSE IF Len(texts) = 1 THEN texts[1]
    ELSE texts[1] \o <<"/">> \o join(Tail(texts))

\* str(x) inside an f-string, of a text or None
str_of(text) == IF text = <<>> THEN <<"N", "o", "n", "e">> ELSE text

str_of_bool(b) == IF b THEN <<"T", "r", "u", "e">> ELSE <<"F", "a", "l", "s", "e">>

\* the index after the longest run of digits of s that starts at i
RECURSIVE digits_end(_, _)
digits_end(s, i) ==
    IF i <= Len(s) /\ s[i] \in DOMAIN DigitValue THEN digits_end(s, i + 1) ELSE i

\* the index after a match of \d+\.\d+\.\d+ that starts at i, 0 without one
match_version_at(s, i) ==
    LET e1 == digits_end(s, i)
        e2 == digits_end(s, e1 + 1)
        e3 == digits_end(s, e2 + 1)
    IN  IF /\ e1 > i /\ e1 <= Len(s) /\ s[e1] = "."
           /\ e2 > e1 + 1 /\ e2 <= Len(s) /\ s[e2] = "."
           /\ e3 > e2 + 1
        THEN e3 ELSE 0

\* a search that finds no version
no_version(detail, i) == <<>>

\* re.search(r'\d+\.\d+\.\d+', detail): group(0) of the leftmost match, the
\* empty sequence without a match
RECURSIVE search_version(_, _)
search_version(detail, i) ==
    IF i > Len(detail) THEN <<>>
    ELSE IF match_version_at(detail, i) > 0
         THEN SubSeq(detail, i, match_version_at(detail, i) - 1)
    ELSE search_version(detail, i + 1)

\* status_tag._get_message(status_tag): the message knack builds from the
\* tag's target, expiration and redirect (shortened to "target:expiration>
\* redirect"), or the text of the tag's own message function
get_message(tag) ==
    IF tag.message = "custom" THEN tag.text
    ELSE tag.target \o <<":">> \o tag.expiration
         \o (IF tag.redirect # <<>> THEN <<">">> \o tag.redirect ELSE <<>>)

\* the records of a status tag; id is the identity of the tag
RECURSIVE handle_status_tag(_, _, _, _)
handle_status_tag(tags, module, command, id) ==
    IF tags[id].kind = "MergedStatusTag"
    THEN LET of[i \in 0..Len(tags[id].tags)] ==
                 IF i = 0 THEN <<>>
                 ELSE of[i - 1] \o handle_status_tag(tags, module, command, tags[id].tags[i])
         IN  of[Len(tags[id].tags)]
    ELSE LET status_tag == tags[id]
             detail == get_message(status_tag)
             declared ==
                 IF status_tag.kind = "Deprecated" THEN status_tag.expiration
                 ELSE IF status_tag.kind = "UpcomingBreakingChangeTag"
                          /\ status_tag.target_version.type \in {"TargetVersion", "str"}
                     THEN status_tag.target_version.value
                 ELSE <<>>
             version == IF declared # <<>> THEN declared ELSE search_version(detail, 1)
         IN  <<BreakingChangeItem(module, command, detail, version)>>

\* the argument settings are a dict: has_option_list tells whether the key
\* 'option_list' is present
calc_target_of_arg_deprecation(tags, arg_name, arg_settings) ==
    LET option_list == IF arg_settings.has_option_list THEN arg_settings.option_list ELSE <<>>
        text(option) == IF option.type = "str" THEN <<option.text>>
                        ELSE IF tags[option.tag].kind = "Deprecated"
                            THEN <<tags[option.tag].target>>
                        ELSE <<>>
        option_str_list[i \in 0..Len(option_list)] ==
            IF i = 0 THEN <<>> ELSE option_str_list[i - 1] \o text(option_list[i])
    IN  IF option_str_list[Len(option_list)] # <<>>
            THEN join(option_str_list[Len(option_list)])
        ELSE IF tags[arg_settings.deprecate_info].has_target
            THEN tags[arg_settings.deprecate_info].target
        ELSE arg_name

\* the generators give [records, tags]: what they yield, and the tags as
\* they leave them
handle_arg_deprecation(tags, module, command, target, deprecation_info) ==
    LET set == [tags EXCEPT ![deprecation_info].target = target,
                            ![deprecation_info].has_target = TRUE]
    IN  [records |-> handle_status_tag(set, module, command, deprecation_info),
         tags |-> set]

\* key = f'{option.redirect}|{option.expiration}|{option.hide}'
option_key(tag) ==
    str_of(tag.redirect) \o <<"|">> \o str_of(tag.expiration) \o <<"|">> \o str_of_bool(tag.hide)

\* deprecate_option_map: the deprecated options of the list, by key
RECURSIVE deprecate_option_map(_, _, _, _)
deprecate_option_map(tags, options, i, map) ==
    IF i > Len(options) THEN map
    ELSE IF options[i].type = "tag" /\ tags[options[i].tag].kind = "Deprecated"
         THEN deprecate_option_map(
                  tags, options, i + 1,
                  DictSet(map, option_key(tags[options[i].tag]),
                          Append(DictGet(map, option_key(tags[options[i].tag])),
                                 options[i].tag)))
    ELSE deprecate_option_map(tags, options, i + 1, map)

\* a merge that leaves the target of the first option of the group alone
keep_target(tags, depr, target) == tags

\* depr.target = target
set_target(tags, depr, target) == [tags EXCEPT ![depr].target = target]

\* for _, depr_list in deprecate_option_map.items(): ...
RECURSIVE handle_option_groups(_, _, _, _, _, _)
handle_option_groups(tags, module, command, map, i, records) ==
    IF i > Len(map) THEN [records |-> records, tags |-> tags]
    ELSE LET depr_list == map[i].v
             target == join([j \in 1..Len(depr_list) |-> tags[depr_list[j]].target])
             set == set_target(tags, depr_list[1], target)
         IN  handle_option_groups(
                 set, module, command, map, i + 1,
                 records \o handle_status_tag(set, module, command, depr_list[1]))

handle_options_deprecation(tags, module, command, options) ==
    handle_option_groups(tags, module, command,
                         deprecate_option_map(tags, options, 1, <<>>), 1, <<>>)

\* text.startswith(prefix)
startswith(text, prefix) ==
    Len(text) >= Len(prefix) /\ SubSeq(text, 1, Len(prefix)) = prefix

\* a declaration of _breaking_change.py: a text, a BreakingChange, a list of
\* declarations, or anything else (None when the key is missing)
RECURSIVE handle_custom_breaking_change(_, _, _)
handle_custom_breaking_change(module, command, breaking_change) ==
    IF breaking_change.type = "str"
        THEN <<BreakingChangeItem(module, command, breaking_change.message, <<>>)>>
    ELSE IF breaking_change.type = "BreakingChange"
        THEN <<BreakingChangeItem(module, command, breaking_change.message,
                                  breaking_change.target_version)>>
    ELSE IF breaking_change.type = "list"
        THEN LET of[i \in 0..Len(breaking_change.items)] ==
                     IF i = 0 THEN <<>>
                     ELSE of[i - 1] \o handle_custom_breaking_change(
                                           module, command, breaking_change.items[i])
             IN  of[Len(breaking_change.items)]
    ELSE <<>>

NoDeclaration == [type |-> "None", message |-> <<>>, target_version |-> <<>>, items |-> <<>>]

\* upcoming_breaking_changes.get(command)
declaration_of(upcoming_breaking_changes, command) ==
    IF command \in DictKeys(upcoming_breaking_changes)
    THEN DictGet(upcoming_breaking_changes, command)
    ELSE NoDeclaration

\* a lookup by prefix, without the dot
is_sub_key_without_dot(key, command) == startswith(key, command)

\* key.startswith(command + '.')
is_sub_key(key, command) == startswith(key, command \o <<".">>)

handle_custom_breaking_changes(upcoming_breaking_changes, module, command) ==
    LET of_keys[i \in 0..Len(upcoming_breaking_changes)] ==
            IF i = 0 THEN <<>>
            ELSE IF is_sub_key(upcoming_breaking_changes[i].k, command)
                 THEN of_keys[i - 1] \o handle_custom_breaking_change(
                                            module, command, upcoming_breaking_changes[i].v)
            ELSE of_keys[i - 1]
    IN  handle_custom_breaking_change(module, command,
                                      declaration_of(upcoming_breaking_changes, command))
        \o of_keys[Len(upcoming_breaking_changes)]

NothingYielded(tags) == [records |-> <<>>, tags |-> tags]

\* for argument_name, argument in command_info.arguments.items(): ...
RECURSIVE handle_arguments(_, _, _, _, _, _)
handle_arguments(tags, module, command, arguments, i, records) ==
    IF i > Len(arguments) THEN [records |-> records, tags |-> tags]
    ELSE LET arg_settings == arguments[i].settings
             of_options(of_arg) ==
                 LET of_opts == handle_options_deprecation(
                                    of_arg.tags, module, command,
                                    IF arg_settings.has_options_list
                                    THEN arg_settings.options_list ELSE <<>>)
                 IN  handle_arguments(of_opts.tags, module, command, arguments, i + 1,
                                      records \o of_arg.records \o of_opts.records)
         IN  IF arg_settings.deprecate_info # 0
             THEN of_options(handle_arg_deprecation(
                                 tags, module, command,
                                 calc_target_of_arg_deprecation(tags, arguments[i].name,
                                                                arg_settings),
                                 arg_settings.deprecate_info))
             ELSE of_options(NothingYielded(tags))

\* a reference to no tag (None) is 0
handle_command_breaking_changes(tags, upcoming_breaking_changes, module, command, command_info, source) ==
    IF source = "deprecate_info"
    THEN LET of_command ==
                 IF command_info.deprecate_info # 0
                 THEN handle_status_tag(tags, module, command, command_info.deprecate_info)
                 ELSE <<>>
         IN  handle_arguments(tags, module, command, command_info.arguments, 1, of_command)
    ELSE IF source = "pre_announce"
        THEN [records |-> handle_custom_breaking_changes(upcoming_breaking_changes,
                                                         module, command),
              tags |-> tags]
    ELSE NothingYielded(tags)

handle_command_group_breaking_changes(tags, upcoming_breaking_changes, module, command_group_name, command_group_info, source) ==
    IF source = "deprecate_info"
    THEN IF command_group_info.deprecate_info # 0
         THEN handle_status_tag(tags, module, command_group_name,
                                command_group_info.deprecate_info)
         ELSE <<>>
    ELSE IF source = "pre_announce"
        THEN handle_custom_breaking_changes(upcoming_breaking_changes, module,
                                            command_group_name)
    ELSE <<>>

\* for command, command_info in loader.command_table.items(): ...
RECURSIVE handle_commands(_, _, _, _, _, _, _)
handle_commands(tags, upcoming_breaking_changes, module, command_table, source, i, records) ==
    IF i > Len(command_table) THEN [records |-> records, tags |-> tags]
    ELSE LET next(of_command) ==
                 handle_commands(of_command.tags, upcoming_breaking_changes, module,
                                 command_table, source, i + 1,
                                 records \o of_command.records)
         IN  next(handle_command_breaking_changes(
                      tags, upcoming_breaking_changes, module, command_table[i].name,
                      command_table[i].info, source))

handle_module(tags, upcoming_breaking_changes, module, loader, source) ==
    LET of_groups(of_commands) ==
            LET table == loader.command_group_table
                of[i \in 0..Len(table)] ==
                    IF i = 0 THEN <<>>
                    ELSE of[i - 1] \o handle_command_group_breaking_changes(
                                          of_commands.tags, upcoming_breaking_changes,
                                          module, table[i].name, table[i].info, source)
            IN  [records |-> of_commands.records \o of[Len(table)],
                 tags |-> of_commands.tags]
    IN  of_groups(handle_commands(tags, upcoming_breaking_changes, module,
                                  loader.command_table, source, 1, <<>>))

Core == <<"c", "o", "r", "e">>

AzureCliCore == <<"a", "z", "u", "r", "e", "-", "c", "l", "i", "-", "c", "o", "r", "e">>

\* a walk of the core that does not look at the source
handle_core_of_any_source(upcoming_breaking_changes, source) ==
    handle_custom_breaking_changes(upcoming_breaking_changes, Core, Core)

handle_core(upcoming_breaking_changes, source) ==
    IF source = "pre_announce"
    THEN handle_custom_breaking_changes(upcoming_breaking_changes, Core, Core)
    ELSE <<>>

\* module_path.rsplit('.', maxsplit=1)[-1]
RECURSIVE last_segment(_, _)
last_segment(module_path, i) ==
    IF i = 0 THEN module_path
    ELSE IF module_path[i] = "." THEN SubSeq(module_path, i + 1, Len(module_path))
    ELSE last_segment(module_path, i - 1)

\* a preparation that does not touch the loader
loader_as_it_is(loader) == loader

\* loader.skip_applicability = True
prepare_module_loader(loader) == [loader EXCEPT !.skip_applicability = TRUE]

\* for module, loader in _iter_and_prepare_module_loader(...): yield from
\* _handle_module(module, loader, source).  c is the state of the command
\* line: its loaders, status tags and declared breaking changes.
RECURSIVE handle_loaders(_, _, _, _, _)
handle_loaders(c, selected_mod_names, source, i, records) ==
    IF i > Len(c.loaders) THEN [records |-> records, cli |-> c]
    ELSE LET module_name == last_segment(c.loaders[i].module_path,
                                         Len(c.loaders[i].module_path))
             next(of_module) ==
                 handle_loaders(
                     [c EXCEPT !.loaders[i] = prepare_module_loader(c.loaders[i]),
                               !.tags = of_module.tags],
                     selected_mod_names, source, i + 1, records \o of_module.records)
         IN  IF module_name # <<>> /\ module_name \notin selected_mod_names
             THEN handle_loaders(c, selected_mod_names, source, i + 1, records)
             ELSE next(handle_module(c.tags, c.upcoming_breaking_changes, module_name,
                                     c.loaders[i], source))

\* [records, cli]: the records the walk yields, and the command line after it
handle_upcoming_breaking_changes(c, selected_mod_names, source) ==
    handle_loaders(c, selected_mod_names, source, 1,
                   IF Core \in selected_mod_names \/ AzureCliCore \in selected_mod_names
                   THEN handle_core(c.upcoming_breaking_changes, source)
                   ELSE <<>>)

(***************************************************************************)
(* The walk on its own.  pre holds the command line as it was loaded (the  *)
(* status tags, the loaders with their command tables and the declared     *)
(* breaking changes), the selected module names and the source; last holds *)
(* the records of the latest walk and the command line before and after it.*)
(***************************************************************************)
MaxWalks == 2

MaxArguments == 2

NoTargetVersion == [type |-> "None", value |-> <<>>]

Tag(kind, target, redirect, expiration, hide) ==
    [kind |-> kind, has_target |-> TRUE, target |-> target, redirect |-> redirect,
     expiration |-> expiration, hide |-> hide, message |-> "default", text |-> <<>>,
     target_version |-> NoTargetVersion, tags |-> <<>>]

\* the status tags of the loaded command line, by identity: 1 and 2 are
\* deprecated options with the same redirect, expiration and hide, 3 is a
\* deprecated option with others, 4 is the deprecation of an argument, 5 an
\* upcoming breaking change with its own message, 6 merges 4 and 5, 7 is
\* the deprecation of a command, 8 and 9 are deprecated options whose
\* redirect and expiration differ and are written alike in a key, 10 is a
\* deprecation without expiration whose message names versions, 11 an
\* upcoming breaking change with a text as target version, 12 one with
\* neither version nor a version in its message, 13 merges 6, 10 and 12
LoadedTags ==
    <<Tag("Deprecated", <<"-", "-", "a">>, <<"-", "-", "n">>, V3_0_0, FALSE),
      Tag("Deprecated", <<"-", "-", "b">>, <<"-", "-", "n">>, V3_0_0, FALSE),
      Tag("Deprecated", <<"-", "-", "c">>, <<>>, <<>>, TRUE),
      Tag("Deprecated", <<"x">>, <<>>, V2_0_0, FALSE),
      [Tag("UpcomingBreakingChangeTag", <<"y">>, <<>>, <<>>, FALSE)
          EXCEPT !.message = "custom", !.text = <<"i", "n", " ", "4", ".", "1", ".", "0">>,
                 !.target_version = [type |-> "TargetVersion", value |-> V10_0_0]],
      [Tag("MergedStatusTag", <<>>, <<>>, <<>>, FALSE) EXCEPT !.tags = <<4, 5>>],
      Tag("Deprecated", <<"g", " ", "c">>, <<>>, <<>>, FALSE),
      Tag("Deprecated", <<"-", "-", "k">>, <<"n", "|", "3">>, <<"0">>, FALSE),
      Tag("Deprecated", <<"-", "-", "l">>, <<"n">>, <<"3", "|", "0">>, FALSE),
      [Tag("Deprecated", <<"w">>, <<>>, <<>>, FALSE)
          EXCEPT !.message = "custom", !.text = <<"1", ".", "2", " ", "o", "r", " ", "1", "0", ".", "2", "0", ".", "3", "0", ".", "4", ",", " ", "5", ".", "6", ".", "7">>],
      [Tag("UpcomingBreakingChangeTag", <<"v">>, <<>>, <<>>, FALSE)
          EXCEPT !.message = "custom", !.text = <<"b", "y", " ", "9", ".", "9", ".", "9">>,
                 !.target_version = [type |-> "str", value |-> V2_0_0]],
      [Tag("UpcomingBreakingChangeTag", <<"u">>, <<>>, <<>>, FALSE)
          EXCEPT !.message = "custom", !.text = <<"s", "o", "o", "n", " ", "1", ".", "2", ".">>],
      [Tag("MergedStatusTag", <<>>, <<>>, <<>>, FALSE) EXCEPT !.tags = <<6, 10, 12>>]>>

StrOption(text) == [type |-> "str", text |-> text, tag |-> 0]

TagOption(id) == [type |-> "tag", text |-> <<>>, tag |-> id]

Settings(deprecate_info, options_list) ==
    [deprecate_info |-> deprecate_info,
     has_options_list |-> options_list # <<>>, options_list |-> options_list,
     has_option_list |-> FALSE, option_list |-> <<>>]

Argument(name, settings) == [name |-> name, settings |-> settings]

ArgumentPool ==
    {Argument(<<"p">>, Settings(0, <<>>)),
     Argument(<<"a">>, Settings(0, <<TagOption(1), StrOption(<<"-", "-", "n">>), TagOption(2)>>)),
     Argument(<<"c">>, Settings(0, <<TagOption(3), TagOption(1)>>)),
     Argument(<<"x">>, Settings(4, <<StrOption(<<"-", "-", "x">>)>>)),
     Argument(<<"y">>, [Settings(4, <<TagOption(3)>>)
                      EXCEPT !.has_option_list = TRUE,
                             !.option_list = <<StrOption(<<"-", "-", "y">>), TagOption(3)>>]),
     Argument(<<"z">>, Settings(6, <<>>)),
     Argument(<<"k">>, Settings(0, <<TagOption(8), TagOption(9)>>))}

Str(message) == [type |-> "str", message |-> message, target_version |-> <<>>, items |-> <<>>]

BreakingChange(message, target_version) ==
    [type |-> "BreakingChange", message |-> message, target_version |-> target_version, items |-> <<>>]

List(items) == [type |-> "list", message |-> <<>>, target_version |-> <<>>, items |-> items]

Entry(k, v) == [k |-> k, v |-> v]

CommandName == <<"g", " ", "c">>

GroupName == <<"g">>

\* the declarations of the _breaking_change modules, by key and in the order
\* of their registration
Registries ==
    {<<>>,
     <<Entry(<<"g", " ", "c">>, Str("s1")),
       Entry(<<"g", " ", "c", "c">>, Str("s2")),
       Entry(<<"g", " ", "c", ".", "x">>, List(<<BreakingChange("b1", V3_0_0), List(<<Str("s3"), Str("s1")>>)>>)),
       Entry(<<"c", "o", "r", "e", ".", "z">>, BreakingChange("b2", V2_0_0))>>,
     <<Entry(<<"g", ".", "y">>, List(<<Str("s4")>>)),
       Entry(<<"g", " ", "c", ".", "x">>, Str("s3")),
       Entry(<<"c", "o", "r", "e">>, List(<<Str("s5"), BreakingChange("b2", V2_0_0)>>)),
       Entry(<<"g", " ", "c", ".", "y">>, List(<<>>)),
       Entry(<<"c", "o", "r", "e", "s">>, Str("s6"))>>,
     <<Entry(<<"g">>, BreakingChange("b3", <<>>)),
       Entry(<<"g", " ", "c">>, List(<<Str("s1"), BreakingChange("b1", V3_0_0)>>)),
       Entry(<<"x", ".", "g", " ", "c", ".">>, Str("s7"))>>}

Vm == <<"v", "m">>

Loader(module_path, command_table, command_group_table) ==
    [module_path |-> module_path, skip_applicability |-> FALSE,
     command_table |-> command_table, command_group_table |-> command_group_table]

\* a command line with the loader of the module vm, which has the command
\* 'g c' of the group 'g', and the loader of another module without commands
CommandLines ==
    {[tags |-> LoadedTags,
      upcoming_breaking_changes |-> registry,
      loaders |-> <<Loader(<<"a", "z", ".", "v", "m">>,
                           <<[name |-> CommandName,
                              info |-> [deprecate_info |-> of_command,
                                        arguments |-> arguments]]>>,
                           <<[name |-> GroupName, info |-> [deprecate_info |-> of_group]]>>),
                    Loader(<<"a", "z", ".", "s", "q", "l">>, <<>>, <<>>)>>] :
        registry \in Registries, of_command \in {0, 7}, of_group \in {0, 5},
        arguments \in SeqsUpTo(ArgumentPool, MaxArguments)}

SelectedModNames == {{}, {Vm}, {Core}, {Vm, AzureCliCore}, {<<"s", "q", "l">>}}

Sources == {"deprecate_info", "pre_announce", "None"}

WalkInit ==
    /\ fs = InitFs
    /\ store = <<>>
    /\ clock = 0
    /\ pc = "idle"
    /\ last = NoCall
    /\ pre \in [cli : CommandLines, selected_mod_names : SelectedModNames, source : Sources]

\* list(_handle_upcoming_breaking_changes(selected_mod_names, source)): the
\* walk, consumed to its end, over the command line as the walks before it
\* left it
HandleUpcomingBreakingChanges ==
    LET before == IF pc = "idle" THEN pre.cli ELSE last.cli
        walks == IF pc = "idle" THEN 0 ELSE last.walks
        previous == IF pc = "idle" THEN <<>> ELSE last.records
        finish(walked) ==
            last' = [op |-> "handle_upcoming_breaking_changes", walks |-> walks + 1,
                     before |-> before, previous |-> previous,
                     records |-> walked.records, cli |-> walked.cli]
    IN  /\ pc = "idle" \/ last.op = "handle_upcoming_breaking_changes"
        /\ walks < MaxWalks
        /\ pc' = "done"
        /\ finish(handle_upcoming_breaking_changes(before, pre.selected_mod_names, pre.source))
        /\ UNCHANGED <<fs, store, clock, pre>>

\* list(_handle_options_deprecation(module, command, options)) on its own,
\* for the options of an argument of the loaded command line
HandleOptionsDeprecation ==
    /\ pc = "idle"
    /\ \E argument \in ArgumentPool :
           LET finish(handled) ==
                   last' = [op |-> "handle_options_deprecation",
                            options |-> argument.settings.options_list,
                            records |-> handled.records, tags |-> handled.tags]
           IN  finish(handle_options_deprecation(pre.cli.tags, Vm, CommandName,
                                                 argument.settings.options_list))
    /\ pc' = "done"
    /\ UNCHANGED <<fs, store, clock, pre>>

\* list(_handle_status_tag(module, command, status_tag)) on its own, for a
\* status tag of the loaded command line
HandleStatusTag ==
    /\ pc = "idle"
    /\ \E id \in DOMAIN pre.cli.tags :
           last' = [op |-> "handle_status_tag", status_tag |-> id,
                    records |-> handle_status_tag(pre.cli.tags, Vm, CommandName, id)]
    /\ pc' = "done"
    /\ UNCHANGED <<fs, store, clock, pre>>

WalkNext == HandleUpcomingBreakingChanges \/ HandleOptionsDeprecation \/ HandleStatusTag

WalkSpec == WalkInit /\ [][WalkNext]_vars

Walked == pc = "done" /\ last.op = "handle_upcoming_breaking_changes"

\* C19: a walk changes nothing: after a walk with either source, every
\* status tag reachable from the command table and the command group table,
\* the target of each tag included, every command, argument setting and
\* option, and every attribute of every loader has the value it had before
\* the walk.
C19_WalkChangesNothing == Walked => last.cli = last.before

\* the parts of C19 that hold: the declared breaking changes, the command
\* tables and every field of a tag but its target stay as they were
C19_WalkKeepsTheRest ==
    Walked =>
        /\ last.cli.upcoming_breaking_changes = last.before.upcoming_breaking_changes
        /\ \A i \in 1..Len(last.cli.loaders) :
               [last.cli.loaders[i] EXCEPT !.skip_applicability = FALSE]
                   = [last.before.loaders[i] EXCEPT !.skip_applicability = FALSE]
        /\ \A id \in 1..Len(last.cli.tags) :
               [last.cli.tags[id] EXCEPT !.target = <<>>]
                   = [last.before.tags[id] EXCEPT !.target = <<>>]

\* the leaf messages of a declaration, from left to right
RECURSIVE Leaves(_)
Leaves(declaration) ==
    IF declaration.type \in {"str", "BreakingChange"} THEN <<declaration>>
    ELSE IF declaration.type = "list" /\ declaration.items # <<>>
        THEN Leaves(declaration.items[1])
             \o Leaves([declaration EXCEPT !.items = Tail(declaration.items)])
    ELSE <<>>

\* the record of a leaf: a text has no target version, a structured leaf has
\* its own
RecordOfLeaf(module, command, leaf) ==
    [module |-> module, command |-> command, detail |-> leaf.message,
     target_version |-> IF leaf.type = "str" THEN <<>> ELSE leaf.target_version]

\* the key is the command name, or the command name, a dot and a suffix
KeyOf(key, command) ==
    \/ key = command
    \/ /\ Len(key) > Len(command)
       /\ \A i \in 1..Len(command) : key[i] = command[i]
       /\ key[Len(command) + 1] = "."

\* the records the claim names for a command: one for each leaf of each
\* declaration under a key of the command
RECURSIVE Announced(_, _, _)
Announced(registry, module, command) ==
    IF registry = <<>> THEN <<>>
    ELSE (IF KeyOf(registry[1].k, command)
          THEN LET leaves == Leaves(registry[1].v)
               IN  [i \in 1..Len(leaves) |-> RecordOfLeaf(module, command, leaves[i])]
          ELSE <<>>)
         \o Announced(Tail(registry), module, command)

Count(records, record) == Cardinality({i \in 1..Len(records) : records[i] = record})

\* the same records, each as many times
SameRecords(a, b) == \A record \in Range(a) \cup Range(b) : Count(a, record) = Count(b, record)

\* the records of the walk that are of a command of a module
RecordsOf(module, command) ==
    SelectSeq(last.records, LAMBDA record : record.module = module /\ record.command = command)

CoreSelected == Core \in pre.selected_mod_names \/ AzureCliCore \in pre.selected_mod_names

\* C20: for source pre_announce and a command, a command group or the
\* pseudo-command 'core' that the walk visits, the walk yields exactly one
\* record per leaf message of the declarations under the key equal to the
\* command name and under every key '<command>.<suffix>', and none from any
\* other key: a text leaf gives a record without target version, a
\* structured leaf one with its own, a list the records of its elements.
C20_PreAnnounceRecordsAreTheLeaves ==
    (Walked /\ pre.source = "pre_announce") =>
        LET registry == last.before.upcoming_breaking_changes
        IN  /\ SameRecords(RecordsOf(Core, Core),
                           IF CoreSelected THEN Announced(registry, Core, Core) ELSE <<>>)
            /\ \A command \in {CommandName, GroupName} :
                   SameRecords(RecordsOf(Vm, command),
                               IF Vm \in pre.selected_mod_names
                               THEN Announced(registry, Vm, command) ELSE <<>>)
            /\ \A i \in 1..Len(last.records) :
                   \/ last.records[i].module = Core /\ last.records[i].command = Core
                   \/ /\ last.records[i].module = Vm
                      /\ last.records[i].command \in {CommandName, GroupName}

\* the command 'g c' has a declaration under its name, a nested list under
\* 'g c.x' and a neighbour 'g cc': the walk yields the text, the structured
\* leaf with its version and the two texts of the inner list, and nothing of
\* the neighbour
C20_Witness ==
    /\ Walked /\ pre.source = "pre_announce" /\ pre.selected_mod_names = {Vm}
    /\ DictKeys(last.before.upcoming_breaking_changes)
           = {<<"g", " ", "c">>, <<"g", " ", "c", "c">>, <<"g", " ", "c", ".", "x">>, <<"c", "o", "r", "e", ".", "z">>}
    /\ last.records = <<BreakingChangeItem(Vm, CommandName, "s1", <<>>),
                        BreakingChangeItem(Vm, CommandName, "b1", V3_0_0),
                        BreakingChangeItem(Vm, CommandName, "s3", <<>>),
                        BreakingChangeItem(Vm, CommandName, "s1", <<>>)>>

C21_SecondWalkOverSameTagsRepeats ==
    (Walked /\ last.walks = 2 /\ (pre.source # "deprecate_info" \/ last.before.tags = pre.cli.tags))
        => last.records = last.previous

\* the arguments of the command of the walked module
ArgumentsWalked == pre.cli.loaders[1].command_table[1].info.arguments

\* the first walk of the deprecations of a command that has one argument,
\* and that argument has a deprecate_info tag
OneDeprecatedArgumentWalked ==
    /\ Walked /\ last.walks = 1 /\ pre.source = "deprecate_info"
    /\ Vm \in pre.selected_mod_names
    /\ Len(ArgumentsWalked) = 1
    /\ ArgumentsWalked[1].settings.deprecate_info # 0

\* the target the claim names: the joined options when there is one (a text
\* contributes itself, a deprecated option its redirect or its target), else
\* the target of the tag, else the name of the argument
TargetOfOptions(tags, argument, options, by_redirect) ==
    LET of(option) == IF option.type = "str" THEN option.text
                      ELSE IF by_redirect THEN tags[option.tag].redirect
                      ELSE tags[option.tag].target
    IN  IF options # <<>> THEN join([i \in 1..Len(options) |-> of(options[i])])
        ELSE IF tags[argument.settings.deprecate_info].has_target
            THEN tags[argument.settings.deprecate_info].target
        ELSE argument.name

\* the target the walk left in the deprecate_info tag of the argument, which
\* is the target the record of the tag is written with
TargetUsed == last.cli.tags[ArgumentsWalked[1].settings.deprecate_info].target

\* C22: for an argument with a deprecate_info tag, the target used for the
\* record is the '/'-joined list of the options the argument declares (a
\* text contributes itself, a deprecated option its redirect target) whenever
\* it declares one; only without options is the target of the tag used, and
\* only without that the name of the argument.
C22_TargetIsTheJoinedDeclaredOptions ==
    OneDeprecatedArgumentWalked =>
        TargetUsed = TargetOfOptions(pre.cli.tags, ArgumentsWalked[1],
                                     ArgumentsWalked[1].settings.options_list, TRUE)

\* what the walk does instead: it joins the entries under the key
\* 'option_list', which is not the key 'options_list' of the declared
\* options, and a deprecated entry contributes its target
C22_TargetIsJoinedFromOptionListKey ==
    OneDeprecatedArgumentWalked =>
        TargetUsed = TargetOfOptions(pre.cli.tags, ArgumentsWalked[1],
                                     ArgumentsWalked[1].settings.option_list, FALSE)

OptionsHandled == pc = "done" /\ last.op = "handle_options_deprecation"

\* the positions of the deprecated options among the options handled
DeprecatedOptions ==
    {i \in 1..Len(last.options) :
        last.options[i].type = "tag" /\ pre.cli.tags[last.options[i].tag].kind = "Deprecated"}

\* the (redirect, expiration, hide) triple of the option at a position
Triple(i) ==
    <<pre.cli.tags[last.options[i].tag].redirect,
      pre.cli.tags[last.options[i].tag].expiration,
      pre.cli.tags[last.options[i].tag].hide>>

\* the positions of the options of a triple, in declaration order
OptionsOf(triple) ==
    SelectSeq([i \in 1..Len(last.options) |-> i],
              LAMBDA i : i \in DeprecatedOptions /\ Triple(i) = triple)

\* the record of a triple: that of its first option, with the joined targets
\* of its options as target
RecordOf(triple) ==
    LET group == OptionsOf(triple)
        first == last.options[group[1]].tag
        target == join([j \in 1..Len(group) |-> pre.cli.tags[last.options[group[j]].tag].target])
    IN  handle_status_tag([pre.cli.tags EXCEPT ![first].target = target],
                          Vm, CommandName, first)[1]

\* C23: for one argument the deprecated options are partitioned by their
\* (redirect, expiration, hide) triple and exactly one record is emitted per
\* distinct triple: options with equal triples are merged into one record
\* whose target is the '/'-joined list of their targets in declaration
\* order, options with different triples are never merged, and an option
\* that is not deprecated yields no record.
C23_OneRecordPerTriple ==
    OptionsHandled =>
        LET triples == {Triple(i) : i \in DeprecatedOptions}
        IN  /\ Len(last.records) = Cardinality(triples)
            /\ \A triple \in triples : Count(last.records, RecordOf(triple)) = 1

\* the part of C23 that holds: the claim for options whose triples are
\* written differently in the key
C23_OneRecordPerTripleWrittenApart ==
    (OptionsHandled /\ \A i, j \in DeprecatedOptions :
                           Triple(i) # Triple(j)
                               => option_key(pre.cli.tags[last.options[i].tag])
                                      # option_key(pre.cli.tags[last.options[j].tag]))
        => LET triples == {Triple(i) : i \in DeprecatedOptions}
           IN  /\ Len(last.records) = Cardinality(triples)
               /\ \A triple \in triples : Count(last.records, RecordOf(triple)) = 1

StatusTagHandled == pc = "done" /\ last.op = "handle_status_tag"

\* the leaves of a status tag, from left to right
RECURSIVE LeafTags(_, _)
LeafTags(tags, id) ==
    IF tags[id].kind # "MergedStatusTag" THEN <<id>>
    ELSE IF tags[id].tags = <<>> THEN <<>>
    ELSE LeafTags(tags, tags[id].tags[1])
         \o LeafTags([tags EXCEPT ![id].tags = Tail(tags[id].tags)], id)

\* the positions at which a text of the shape digits.digits.digits starts
VersionStarts(text) ==
    {i \in 1..Len(text) :
        \E j \in i..Len(text) : \E k \in (j + 2)..Len(text) :
            /\ \A m \in i..j : text[m] \in DOMAIN DigitValue
            /\ j + 1 <= Len(text) /\ text[j + 1] = "."
            /\ \A m \in (j + 2)..k : text[m] \in DOMAIN DigitValue
            /\ k + 2 <= Len(text) /\ text[k + 1] = "."
            /\ text[k + 2] \in DOMAIN DigitValue}

\* the first, longest substring of the text of that shape: each run of
\* digits is taken to its end
FirstVersion(text) ==
    IF VersionStarts(text) = {} THEN <<>>
    ELSE LET i == CHOOSE i \in VersionStarts(text) : \A o \in VersionStarts(text) : i <= o
             run(s) == CHOOSE e \in s..Len(text) :
                           /\ \A m \in s..e : text[m] \in DOMAIN DigitValue
                           /\ e = Len(text) \/ text[e + 1] \notin DOMAIN DigitValue
         IN  SubSeq(text, i, run(run(run(i) + 2) + 2))

\* the version of a leaf: its expiration, else its target version, else the
\* first version in its message, else none
VersionOfLeaf(tag) ==
    IF tag.kind = "Deprecated" /\ tag.expiration # <<>> THEN tag.expiration
    ELSE IF tag.kind = "UpcomingBreakingChangeTag" /\ tag.target_version.value # <<>>
        THEN tag.target_version.value
    ELSE FirstVersion(get_message(tag))

\* the leaves and the versions of the loaded tags
LeavesOfLoadedTags == [id \in DOMAIN LoadedTags |-> LeafTags(LoadedTags, id)]

VersionOfLoadedLeaf == [id \in DOMAIN LoadedTags |-> VersionOfLeaf(LoadedTags[id])]

\* C24: the status tag resolver ends on every finite, possibly nested,
\* composite tag and yields exactly one record per leaf, from left to right;
\* the target version of a leaf is its expiration if it has one, else its
\* structured target version if it has one, else the first substring of its
\* message of the shape digits.digits.digits, else none.
C24_OneRecordPerLeafWithItsVersion ==
    StatusTagHandled =>
        /\ pre.cli.tags = LoadedTags
        /\ Len(last.records) = Len(LeavesOfLoadedTags[last.status_tag])
        /\ \A i \in 1..Len(last.records) :
               /\ last.records[i].detail
                      = get_message(LoadedTags[LeavesOfLoadedTags[last.status_tag][i]])
               /\ last.records[i].target_version
                      = VersionOfLoadedLeaf[LeavesOfLoadedTags[last.status_tag][i]]

\* the tag that merges a merged tag, a deprecation whose message names
\* versions and an upcoming change without any: four records, with the
\* expiration, the target version, the first version of the message and none
C24_Witness ==
    /\ StatusTagHandled /\ last.status_tag = 13
    /\ [i \in 1..Len(last.records) |-> last.records[i].target_version]
           = <<V2_0_0, V10_0_0, <<"1", "0", ".", "2", "0", ".", "3", "0">>, <<>>>>

\* a call of mask_secrets with a saved scan result that exists, for a valid
\* target and without a fault of the file system
MaskedFromSavedFile ==
    /\ Finished("mask") /\ last.fault = NoFault /\ ValidTarget(last.args)
    /\ last.args.saved_scan_result_path # <<>>
    /\ abspath(last.args.saved_scan_result_path) \in DOMAIN pre.store

\* the entries the saved file holds
PersistedEntries == json_load(pre.store[abspath(last.args.saved_scan_result_path)])

\* the keys that belong to the target of the call
KeysOfTarget ==
    IF last.args.file_path # <<>> THEN {abspath(last.args.file_path)}
    ELSE IF last.args.directory_path # <<>> THEN Range(TargetFiles(pre.fs, last.args))
    ELSE {RawData}

\* C25: filtering a loaded scan result by target is total on valid input:
\* for an existing saved result and a valid target it gives exactly the
\* persisted entries whose key is the absolute path of the file target, a
\* file the enumeration of the directory target retains, or 'raw_data' for
\* inline data, with their findings unchanged; when no persisted key
\* qualifies the result is empty, mask_secrets returns mask = False, and
\* nothing fails.
C25_SavedResultFilteredByTarget ==
    MaskedFromSavedFile =>
        /\ last.outcome = "returned"
        /\ Range(last.scan_results) = {e \in Range(PersistedEntries) : e.key \in KeysOfTarget}
        /\ Len(last.scan_results) = Cardinality(Range(last.scan_results))
        /\ (\A e \in Range(PersistedEntries) : e.key \notin KeysOfTarget)
               => last.mask_result.mask = FALSE

\* the part of C25 that holds: the claim for a file or directory target,
\* and for inline data when the saved file has the key 'raw_data'
C25_FilteredWhenRawDataPersisted ==
    (MaskedFromSavedFile
     /\ (last.args.data # <<>> => RawData \in Keys(PersistedEntries)))
        => /\ last.outcome = "returned"
           /\ Range(last.scan_results) = {e \in Range(PersistedEntries) : e.key \in KeysOfTarget}
           /\ Len(last.scan_results) = Cardinality(Range(last.scan_results))
           /\ (\A e \in Range(PersistedEntries) : e.key \notin KeysOfTarget)
                  => last.mask_result.mask = FALSE

(***************************************************************************)
(* Two calls of mask_secrets that save to the same scan result path, step  *)
(* by step: each scans and opens the result file for writing, dumps its    *)
(* findings, reads the file again and redacts with what it read.  Nothing  *)
(* locks the file, so the steps of the two calls interleave freely.  pre   *)
(* holds the arguments of each call, pc its position; last holds what each *)
(* call has in its local variables, and which call wrote the result file   *)
(* last.                                                                   *)
(***************************************************************************)
Calls == {1, 2}

SharedResultPath == <<"r.json">>

\* the result file between open(scan_result_path, 'w') and json.dump: empty,
\* which is no JSON document
Truncated == << <<>> >>

\* the result file after two calls that both had it open have written to
\* it: the later text over the start of the earlier one, no JSON document
\* when the later text is the shorter
Garbled == << <<>>, <<>> >>

RaceTargets ==
    {t \in Targets : t.directory_path = <<>> /\ t.include_pattern = <<>>
                     /\ t.exclude_pattern = <<>>}

RaceCalls ==
    {Call(t, [DefaultOptions EXCEPT !.save_scan_result = TRUE,
                                    !.scan_result_path = SharedResultPath],
          DefaultOptions, [redaction_type |-> r, yes |-> TRUE], <<>>) :
        t \in RaceTargets, r \in {"FIXED_VALUE", "SECRET_NAME"}}

NoLocals ==
    [found |-> <<>>, scan_result_path |-> <<>>, scan_results |-> <<>>, read_from |-> 0,
     outcome |-> "none", errtype |-> "", mask_result |-> DefaultMask]

RaceInit ==
    /\ fs = InitFs
    /\ store = <<>>
    /\ clock = 0
    /\ pc = [p \in Calls |-> "start"]
    /\ last = [locals |-> [p \in Calls |-> NoLocals], writer |-> 0]
    /\ pre \in [Calls -> RaceCalls]

\* the read of the own findings, in place of the read of the file
reread_own(st, scan_result_path, found) == found

\* with open(scan_response['scan_result_path']) as f: scan_results = json.load(f)
reread(st, scan_result_path, found) == json_load(st[scan_result_path])

\* scan_secrets up to open(scan_result_path, 'w'): the scan of the target,
\* and the result file opened and truncated when there are findings
ScanAndOpen(p) ==
    LET finish(scan) ==
            IF scan.outcome = "raised"
            THEN /\ pc' = [pc EXCEPT ![p] = "failed"]
                 /\ last' = [last EXCEPT !.locals[p].outcome = "raised",
                                         !.locals[p].errtype = scan.errtype]
                 /\ store' = store
            ELSE IF scan.response.scan_result_path = <<>>
            THEN /\ pc' = [pc EXCEPT ![p] = "loaded"]
                 /\ last' = last
                 /\ store' = store
            ELSE /\ pc' = [pc EXCEPT ![p] = "opened"]
                 /\ last' = [last EXCEPT
                                !.locals[p].scan_result_path = scan.response.scan_result_path,
                                !.locals[p].found =
                                    json_load(scan.store[scan.response.scan_result_path])]
                 /\ store' = (scan.response.scan_result_path :> Truncated) @@ store
    IN  /\ pc[p] = "start"
        /\ finish(scan_secrets(fs, store, clock, NoFault, pre[p]))
        /\ UNCHANGED <<fs, clock, pre>>

\* json.dump(scan_results, f) and the return of scan_secrets; when another
\* call has written since this call opened the file, the text lands on the
\* text of the other
Dump(p) ==
    /\ pc[p] = "opened"
    /\ pc' = [pc EXCEPT ![p] = "saved"]
    /\ \E written \in IF store[last.locals[p].scan_result_path] = Truncated
                       THEN {json_dump(last.locals[p].found)}
                       ELSE {json_dump(last.locals[p].found), Garbled} :
           store' = (last.locals[p].scan_result_path :> written) @@ store
    /\ last' = [last EXCEPT !.writer = p]
    /\ UNCHANGED <<fs, clock, pre>>

\* lines 271-273: the result file is read again; json.load raises when the
\* file is empty or garbled
Reread(p) ==
    /\ pc[p] = "saved"
    /\ IF store[last.locals[p].scan_result_path] \in {Truncated, Garbled}
       THEN /\ pc' = [pc EXCEPT ![p] = "failed"]
            /\ last' = [last EXCEPT !.locals[p].outcome = "raised",
                                    !.locals[p].errtype = "JSONDecodeError"]
       ELSE /\ pc' = [pc EXCEPT ![p] = "loaded"]
            /\ last' = [last EXCEPT
                           !.locals[p].read_from = last.writer,
                           !.locals[p].scan_results =
                               reread(store, last.locals[p].scan_result_path,
                                      last.locals[p].found)]
    /\ UNCHANGED <<fs, store, clock, pre>>

\* lines 277-317: the redaction with the scan results the call holds
Redact(p) ==
    LET finish(r) ==
            /\ fs' = r.fs
            /\ last' = [last EXCEPT !.locals[p].outcome = r.outcome,
                                    !.locals[p].errtype = r.errtype,
                                    !.locals[p].mask_result = r.mask_result]
    IN  /\ pc[p] = "loaded"
        /\ pc' = [pc EXCEPT ![p] = "done"]
        /\ finish(mask_scan_results(
                      fs, NoFault, pre[p], TRUE,
                      [errtype |-> "", error |-> "",
                       scan_results |-> last.locals[p].scan_results,
                       store |-> store, reads |-> <<>>, writes |-> <<>>]))
        /\ UNCHANGED <<store, clock, pre>>

RaceNext == \E p \in Calls : ScanAndOpen(p) \/ Dump(p) \/ Reread(p) \/ Redact(p)

RaceSpec == RaceInit /\ [][RaceNext]_vars

\* C26: the saved scan result is read and written without a lock, so two
\* calls of mask_secrets that save to the same path race: what a call
\* applies is what the file held when the call read it again, that is the
\* findings of the call that wrote last, whether or not that is the call
\* itself; a state is reachable (C26_Witness) in which a call has read the
\* file after the other call overwrote it and has applied the other call's
\* findings in place of the findings of its own scan.
C26_CallAppliesWhatTheLastWriterSaved ==
    \A p \in Calls :
        (pc[p] \in {"loaded", "done"} /\ last.locals[p].read_from # 0)
            => last.locals[p].scan_results = last.locals[last.locals[p].read_from].found

\* call 1 scanned one target and call 2 another; call 1 read the file after
\* call 2 had overwritten it, and has redacted with the findings of call 2
C26_Witness ==
    /\ pc[1] = "done" /\ last.locals[1].read_from = 2
    /\ pre[1].file_path # pre[2].file_path \/ pre[1].data # pre[2].data
    /\ last.locals[1].found # last.locals[2].found
    /\ last.locals[1].scan_results = last.locals[2].found
    /\ last.locals[1].mask_result.mask

(***************************************************************************)
(* The linter rule require_wait_command_if_no_wait.  pre holds the command *)
(* names of the linter, the commands that support --no-wait and the name   *)
(* of the command group the rule is applied to; last holds the commands    *)
(* the rule examined and whether it raised a RuleError.                    *)
(***************************************************************************)
\* text.split(): the tokens between the blanks; token is the token read so far
RECURSIVE split(_, _, _)
split(text, i, token) ==
    IF i > Len(text) THEN (IF token = <<>> THEN <<>> ELSE <<token>>)
    ELSE IF text[i] = " "
        THEN (IF token = <<>> THEN <<>> ELSE <<token>>) \o split(text, i + 1, <<>>)
    ELSE split(text, i + 1, Append(token, text[i]))

\* a command counts as one of the group when its tokens are those of the
\* group and one more
in_group_by_tokens(cmd, command_group_name) ==
    /\ Len(split(cmd, 1, <<>>)) = Len(split(command_group_name, 1, <<>>)) + 1
    /\ SubSeq(split(cmd, 1, <<>>), 1, Len(split(command_group_name, 1, <<>>)))
           = split(command_group_name, 1, <<>>)

\* cmd.startswith(command_group_name) and
\* len(cmd.split()) == len(command_group_name.split()) + 1
in_group(cmd, command_group_name) ==
    /\ startswith(cmd, command_group_name)
    /\ Len(split(cmd, 1, <<>>)) = Len(split(command_group_name, 1, <<>>)) + 1

\* [examined, raised]: group_command_names, and whether the rule raises
require_wait_command_if_no_wait(commands, supports_no_wait, command_group_name) ==
    LET group_command_names == SelectSeq(commands, LAMBDA cmd : in_group(cmd, command_group_name))
        ends_with_wait(cmd) ==
            lower(split(cmd, 1, <<>>)[Len(split(cmd, 1, <<>>))]) = <<"w", "a", "i", "t">>
    IN  [examined |-> group_command_names,
         raised |-> /\ \A i \in 1..Len(group_command_names) :
                           ~ends_with_wait(group_command_names[i])
                    /\ \E i \in 1..Len(group_command_names) :
                           group_command_names[i] \in supports_no_wait]

\* linter.commands, in the order of the command table
CommandPool ==
    <<<<"v", "m", " ", "c", "r", "e", "a", "t", "e">>, <<"v", "m", " ", "w", "a", "i", "t">>, <<"v", "m", " ", "d", "i", "s", "k", " ", "a", "d", "d">>, <<"v", "m", "s", "s", " ", "c", "r", "e", "a", "t", "e">>, <<"v", "m", "s", "s", " ", "w", "a", "i", "t">>, <<"s", "h", "o", "w">>>>

CommandGroupNames == {<<>>, <<"v", "m">>, <<"v", "m", "s", "s">>, <<"v", "m", " ", "d", "i", "s", "k">>}

LintInit ==
    /\ fs = InitFs
    /\ store = <<>>
    /\ clock = 0
    /\ pc = "idle"
    /\ last = NoCall
    /\ \E loaded \in SUBSET Range(CommandPool) : \E no_wait \in SUBSET loaded :
           pre \in [commands : {SelectSeq(CommandPool, LAMBDA cmd : cmd \in loaded)},
                    supports_no_wait : {no_wait},
                    command_group_name : CommandGroupNames]

RequireWaitCommandIfNoWait ==
    LET finish(rule) ==
            last' = [op |-> "require_wait_command_if_no_wait",
                     examined |-> rule.examined, raised |-> rule.raised]
    IN  /\ pc = "idle"
        /\ pc' = "done"
        /\ finish(require_wait_command_if_no_wait(pre.commands, pre.supports_no_wait,
                                                  pre.command_group_name))
        /\ UNCHANGED <<fs, store, clock, pre>>

LintNext == RequireWaitCommandIfNoWait

LintSpec == LintInit /\ [][LintNext]_vars

RuleApplied == pc = "done" /\ last.op = "require_wait_command_if_no_wait"

\* the commands of the group: the name of the group and one more token
CommandsOfGroup ==
    SelectSeq(pre.commands,
              LAMBDA cmd :
                  LET tokens == split(cmd, 1, <<>>)
                      group == split(pre.command_group_name, 1, <<>>)
                  IN  Len(tokens) = Len(group) + 1
                      /\ \A i \in 1..Len(group) : tokens[i] = group[i])

LastToken(cmd) == split(cmd, 1, <<>>)[Len(split(cmd, 1, <<>>))]

\* C27: require_wait_command_if_no_wait examines exactly the commands of
\* the group, whose name is the name of the group and one more token (a
\* command of a sibling group whose name starts with the same characters is
\* not examined), and it raises a rule error exactly when none of them has
\* 'wait' as its last token and one of them supports --no-wait.
C27_RuleExaminesTheCommandsOfTheGroup ==
    RuleApplied =>
        /\ last.examined = CommandsOfGroup
        /\ last.raised <=>
               /\ \A cmd \in Range(CommandsOfGroup) : LastToken(cmd) # <<"w", "a", "i", "t">>
               /\ \E cmd \in Range(CommandsOfGroup) : cmd \in pre.supports_no_wait

\* the part of C27 that holds: the claim for a group whose name is not the
\* start of the first token of another group's command
C27_RuleWithoutSiblingOfSameStart ==
    (RuleApplied /\ \A cmd \in Range(pre.commands) :
                        in_group(cmd, pre.command_group_name)
                            => in_group_by_tokens(cmd, pre.command_group_name))
        => /\ last.examined = CommandsOfGroup
           /\ last.raised <=>
                  /\ \A cmd \in Range(CommandsOfGroup) : LastToken(cmd) # <<"w", "a", "i", "t">>
                  /\ \E cmd \in Range(CommandsOfGroup) : cmd \in pre.supports_no_wait

\* the files of the file system that a call left with another content
FilesChanged == {f \in DOMAIN pre.fs : fs[f] # pre.fs[f]}

InlineDataMasked ==
    /\ Returned("mask") /\ last.mask_result.mask
    /\ last.args.data # <<>> /\ RawData \in Keys(last.scan_results)

\* C29: after mask_secrets returns mask = True for inline data, the data it
\* returns holds no occurrence of the secret_value of any finding of the
\* scan result, for every redaction type and every order of the findings: a
\* replacement text, or an earlier replacement that alters a later,
\* overlapping secret, never leaves or re-creates a secret value.
C29_NoSecretValueInMaskedData ==
    InlineDataMasked =>
        \A i \in 1..Len(Get(last.scan_results, RawData)) :
            ~Occurs(last.mask_result.data, Get(last.scan_results, RawData)[i].secret_value)

\* the part of C29 that holds: the claim when no replacement text holds the
\* secret_value of a finding
C29_NoSecretValueUnlessReplacementHoldsIt ==
    (InlineDataMasked
     /\ \A i, j \in 1..Len(Get(last.scan_results, RawData)) :
            ~Occurs(Replacement(last.args.redaction_type, Get(last.scan_results, RawData)[i]),
                   Get(last.scan_results, RawData)[j].secret_value))
        => \A i \in 1..Len(Get(last.scan_results, RawData)) :
               ~Occurs(last.mask_result.data,
                      Get(last.scan_results, RawData)[i].secret_value)

\* the command line with nothing declared in _breaking_change.py
WithoutDeclarations(c) == [c EXCEPT !.upcoming_breaking_changes = <<>>]

\* the command line with no status tag on a command, a group or an argument
WithoutStatusTags(c) ==
    [c EXCEPT !.loaders =
        [i \in 1..Len(c.loaders) |->
            [c.loaders[i] EXCEPT
                !.command_table =
                    [j \in 1..Len(c.loaders[i].command_table) |->
                        [c.loaders[i].command_table[j] EXCEPT
                            !.info = [deprecate_info |-> 0, arguments |-> <<>>]]],
                !.command_group_table =
                    [j \in 1..Len(c.loaders[i].command_group_table) |->
                        [c.loaders[i].command_group_table[j] EXCEPT
                            !.info = [deprecate_info |-> 0]]]]]]

\* the results collect_upcoming_breaking_changes can group from the records
GroupedResults(records) ==
    {collect_upcoming_breaking_changes(records, target_version, group_by_version).grouped :
        target_version \in {NextWindow, NoneText, V3_0_0}, group_by_version \in BOOLEAN}

\* C30: the walk yields records of one source per run. With source
\* deprecate_info nothing declared in _breaking_change.py gives a record (the
\* records are those of the same command line with nothing declared) and no
\* record is of 'core'; with source pre_announce no status tag gives a record
\* (the records are those of the same command line without status tags, and
\* no tag is touched); with any other source, the default None included, the
\* walk yields no record and the grouped result is empty.
C30_RecordsOfOneSourcePerRun ==
    Walked =>
        /\ pre.source = "deprecate_info" =>
               /\ last.records = handle_upcoming_breaking_changes(
                                     WithoutDeclarations(last.before),
                                     pre.selected_mod_names, pre.source).records
               /\ \A i \in 1..Len(last.records) :
                      last.records[i].module # Core /\ last.records[i].command # Core
        /\ pre.source = "pre_announce" =>
               /\ last.records = handle_upcoming_breaking_changes(
                                     WithoutStatusTags(last.before),
                                     pre.selected_mod_names, pre.source).records
               /\ last.cli.tags = last.before.tags
        /\ pre.source \notin {"deprecate_info", "pre_announce"} =>
               /\ last.records = <<>>
               /\ last.cli.tags = last.before.tags
               /\ GroupedResults(last.records) = {<<>>}

\* a deprecate_info walk over the module vm and the core, with declarations
\* for the command 'g c' and for 'core' in the registry and a deprecated
\* command: the walk yields the record of the command's tag and nothing of
\* the registry
C30_Witness ==
    /\ Walked /\ last.walks = 1 /\ pre.source = "deprecate_info"
    /\ pre.selected_mod_names = {Vm, AzureCliCore}
    /\ {<<"g", " ", "c">>, <<"c", "o", "r", "e">>} \cap DictKeys(last.before.upcoming_breaking_changes) # {}
    /\ Len(last.records) = 1
    /\ last.records[1].module = Vm /\ last.records[1].command = CommandName

====
